---- MODULE Spec2Model ----
(***************************************************************************)
(* Model of the background task registry (BasicBackgroundTaskManager) and  *)
(* of the install / update / verify operations of                          *)
(* BasicGameManagementService that run on it, with the per-title map of    *)
(* active operations, and of CoreIPCService, which keeps the last known    *)
(* state of every game and publishes state changes to its listeners.       *)
(*                                                                         *)
(* Every step is one critical section or one call of the source; the       *)
(* threads are the API callers (one per request) and the std::async        *)
(* worker of every task.                                                   *)
(***************************************************************************)
EXTENDS Integers, Sequences, FiniteSets, TLC

\* ------------------------------------------------------------------ bounds
MaxTasks == 2        \* task ids allocated in one run
MaxRegistryTasks == 1 \* tasks in a run of the registry alone
MaxReports == 2      \* progress reports of one generic work function
MaxFiles == 2        \* file entries in a manifest
MaxCancels == 2      \* CancelOperation calls in one run
MaxCancelReqs == 1   \* direct RequestCancellation calls in one run
MaxScans == 1        \* GetActiveTasks calls in one run
MaxHubCalls == 4     \* calls of the CoreIPCService interface in one run
MaxHubCancels == 1   \* RequestCancel calls next to running installs

TaskIds == 1..MaxTasks
Titles == {"alpha"}

\* ------------------------------------------------------------ program data
\* No task has this id; active_operations_ maps a title without an entry to it.
kInvalidTaskId == 0

TaskStatus == {"kPending", "kRunning", "kPaused", "kSucceeded", "kFailed", "kCancelled"}
TerminalStatus == {"kSucceeded", "kFailed", "kCancelled"}

\* std::optional<std::string>: <<>> is nullopt, <<s>> holds s.
NullOpt == <<>>
Some(s) == <<s>>

\* Progress values are kept as exact multiples of 1/1200, so that every
\* fraction the pipeline computes for up to six files is an integer.
Frac(num, den) == (num * 1200) \div den
Percent(p) == Frac(p, 1)

\* what() of the exceptions a generic work function may throw; "..." stands
\* for a throw of a type not derived from std::exception.
ExceptionWhats == {"", "boom", "..."}
\* The reports a generic work function makes, as (percentage, description).
GenericReports == {<<Percent(50), <<"Halfway">>>>, <<Percent(100), <<"Done">>>>}
GenericInitial == <<"Generic task">>

\* A manifest document: whether it has a "files" member and of which JSON
\* type, and how many entries that member has.
Manifests ==
    {[files |-> f, n |-> k] : f \in {"absent", "array", "object"}, k \in 0..MaxFiles}
        \ {[files |-> "absent", n |-> k] : k \in 1..MaxFiles}
\* The LocalManifest file of a title before the program starts: none, or one
\* written by an earlier run.
InitialLocalManifests == {<<>>, <<[files |-> "object", n |-> MaxFiles]>>}

\* ---- CoreIPCService
\* The games of games.json, in the iteration order of the std::map that
\* holds their statuses.
Catalog == {"alpha", "beta"}
CatalogOrder == <<"alpha", "beta">>
\* The IGameStatusListener objects of the IPC layer.
Listeners == {"l1", "l2"}
nullptr == "nullptr"
\* The threads that call into CoreIPCService.
HubThreads == {"h1", "h2"}
NoThread == "none"

GameState == {"Unknown", "NotInstalled", "CheckingStatus", "UpdateAvailable",
              "ReadyToLaunch", "InstallPending", "Downloading", "Verifying",
              "Installing", "LaunchPending", "Launching", "Running",
              "InstallFailed", "LaunchFailed", "UpdateFailed", "Idle"}

\* GameStatusUpdate (bytes_per_second is never set).
GameStatusUpdate(game_id, state, progress_percent, message) ==
    [game_id |-> game_id, current_state |-> state,
     progress_percent |-> progress_percent, message |-> message]
\* current_game_statuses_ has no entry for the game.
NoStatus == GameStatusUpdate("", "Unknown", 0, "")

\* How a call of IGameStatusListener::OnGameStatusUpdate ends: it returns, it
\* throws, or it never returns (a listener that waits, or that calls
\* AddStatusListener / RemoveStatusListener and so locks listeners_mutex_,
\* which its own thread holds, a second time).
CallbackOutcomes == {"returns", "throws", "blocks"}

\* A thread of the IPC layer outside any call.
\* n numbers the calls of a run; targets is listeners_ as NotifyListeners found
\* it, delivered the calls of OnGameStatusUpdate made so far.
NoCall == [n |-> 0, op |-> "none", pc |-> "idle", listener |-> nullptr,
           game_id |-> "", updates |-> <<>>, targets |-> <<>>,
           delivered |-> <<>>, result |-> "none"]

VARIABLES
    next_task_id_,          \* std::atomic<TaskId>
    tasks_,                 \* key set of the tasks_ map
    info,                   \* TaskInternal::info of every allocated task
    cancellation_requested, \* TaskInternal::cancellation_requested
    current_progress,       \* TaskInternal::current_progress
    current_description,    \* TaskInternal::current_description
    wpc,                    \* position of the task_wrapper of every task
    work,                   \* position and locals of the work closure
    origin,                 \* the request a task was started by
    reqpc,                  \* position of the calling thread of a request
    reqResult,              \* status the request returned
    active_operations_,     \* title -> TaskId (kInvalidTaskId: no entry)
    cancelling,             \* CancelOperation calls between erase and forward
    cancelCalls,            \* CancelOperation calls made
    cancelReqs,             \* direct RequestCancellation calls made
    local_manifest,         \* the LocalManifest file of every title
    observed,               \* the status GetTaskInfo last returned (<<>>: none yet)
    cancelSeenActive,       \* RequestCancellation found the task Pending/Running
    lastCancelResult,       \* result of the last CancelOperation per title
    reported,               \* description last handed to the task's ProgressReporter
    active_tasks,           \* ids GetActiveTasks last returned (<<>>: no call yet)
    scans,                  \* GetActiveTasks calls made
    listeners_,             \* std::vector<IGameStatusListener*>
    current_game_statuses_, \* game id -> GameStatusUpdate (NoStatus: no entry)
    listeners_mutex_,       \* thread holding the mutex (NoThread: free)
    games_mutex_,           \* thread holding the mutex (NoThread: free)
    hub,                    \* the call every thread of the IPC layer is in
    hubCalls,               \* calls of the CoreIPCService interface made
    monitor_pc,             \* position of MonitorTasksLoop
    active_game_tasks_,     \* game id -> TaskId (kInvalidTaskId: no entry)
    tasks_mutex_,           \* thread holding the registry's mutex (NoThread: free)
    active_operations_mutex_, \* thread holding the mutex of active_operations_
    user_settings_,         \* the IUserSettings of the manager: key -> optional string
    auth_manager_,          \* whether a BasicAuthenticationManager exists
    current_status_,        \* BasicAuthenticationManager::current_status_
    current_profile_,       \* BasicAuthenticationManager::current_profile_
    authCall,               \* the last call on the manager, its result and its writes
    settings_file,          \* the file at JsonUserSettings::settings_file_path_
    json_settings_,         \* whether a JsonUserSettings object exists
    current_settings_,      \* JsonUserSettings::current_settings_
    settings_dirty_,        \* JsonUserSettings::settings_dirty_
    settingsCall            \* the last call on the JsonUserSettings and its result

vars == <<next_task_id_, tasks_, info, cancellation_requested, current_progress,
          current_description, wpc, work, origin, reqpc, reqResult,
          active_operations_, cancelling, cancelCalls, cancelReqs,
          local_manifest, observed, cancelSeenActive, lastCancelResult,
          reported, active_tasks, scans, listeners_, current_game_statuses_,
          listeners_mutex_, games_mutex_, hub, hubCalls, monitor_pc,
          active_game_tasks_, tasks_mutex_, active_operations_mutex_,
          user_settings_, auth_manager_, current_status_, current_profile_, authCall,
          settings_file, json_settings_, current_settings_, settings_dirty_,
          settingsCall>>

\* The state of BasicAuthenticationManager with its IUserSettings.
authVars == <<user_settings_, auth_manager_, current_status_, current_profile_, authCall>>
\* The state of JsonUserSettings with its file.
settingsVars == <<settings_file, json_settings_, current_settings_, settings_dirty_,
                  settingsCall>>
\* The account side of the launcher: authentication and user settings.
accountVars == <<authVars, settingsVars>>

\* The state of CoreIPCService.
hubVars == <<listeners_, current_game_statuses_, listeners_mutex_, games_mutex_,
             hub, hubCalls, monitor_pc, active_game_tasks_>>
\* The thread that called InstallGame / UpdateGame / VerifyGame and was given
\* task id t by StartTask.
RequestThread(t) == ToString(t)
\* absl::Mutex / std::mutex: a thread locks it when no thread holds it.
Free(mutex) == mutex = NoThread
\* The destructors of the absl::MutexLock objects of thread h.
Unlock(mutex, h) == IF mutex = h THEN NoThread ELSE mutex

\* The two mutexes of the task registry and of the game management service.
\* A critical section that is one step of the model locks and unlocks its
\* mutex inside the step.
lockVars == <<tasks_mutex_, active_operations_mutex_>>
\* The state of the task registry and of the game management service.
coreVars == <<next_task_id_, tasks_, info, cancellation_requested, current_progress,
              current_description, wpc, work, origin, reqpc, reqResult,
              active_operations_, cancelling, cancelCalls, cancelReqs,
              local_manifest, observed, cancelSeenActive, lastCancelResult,
              reported, active_tasks, scans, tasks_mutex_,
              active_operations_mutex_>>

\* InitializeGameStates: every game GetInstalledGames returned is
\* ReadyToLaunch (an error of GetInstalledGames leaves the map empty).
InitializeGameStates(installed_games) ==
    [g \in Catalog |->
        IF g \in installed_games
          THEN GameStatusUpdate(g, "ReadyToLaunch", 100, "Ready to Play")
          ELSE NoStatus]

\* The constructor: the state of a CoreIPCService whose game manager
\* reported installed_games, with the monitor thread started.
CoreIPCService(installed_games) ==
    /\ listeners_ = <<>>
    /\ current_game_statuses_ = InitializeGameStates(installed_games)
    /\ listeners_mutex_ = NoThread
    /\ games_mutex_ = NoThread
    /\ hub = [h \in HubThreads |-> NoCall]
    /\ hubCalls = 0
    /\ monitor_pc = "waiting"
    /\ active_game_tasks_ = [g \in Catalog |-> kInvalidTaskId]

NoWork == [pc |-> "none", success |-> FALSE, err |-> "", threw |-> FALSE,
           reports |-> 0,
           manifest |-> <<>>, idx |-> 0, checked |-> <<>>]
NoOrigin == [kind |-> "none", title |-> ""]
NoInfo == [status |-> "kPending", progress_percentage |-> 0,
           description |-> <<>>, error_message |-> NullOpt]

\* The registry and the game management service after construction.
InitCore ==
    /\ next_task_id_ = 1
    /\ tasks_ = {}
    /\ info = [t \in TaskIds |-> NoInfo]
    /\ cancellation_requested = [t \in TaskIds |-> FALSE]
    /\ current_progress = [t \in TaskIds |-> 0]
    /\ current_description = [t \in TaskIds |-> <<>>]
    /\ wpc = [t \in TaskIds |-> "unborn"]
    /\ work = [t \in TaskIds |-> NoWork]
    /\ origin = [t \in TaskIds |-> NoOrigin]
    /\ reqpc = [t \in TaskIds |-> "none"]
    /\ reqResult = [t \in TaskIds |-> "none"]
    /\ active_operations_ = [g \in Titles |-> kInvalidTaskId]
    /\ cancelling = {}
    /\ cancelCalls = 0
    /\ cancelReqs = 0
    /\ local_manifest \in [Titles -> InitialLocalManifests]
    /\ observed = [t \in TaskIds |-> <<>>]
    /\ cancelSeenActive = [t \in TaskIds |-> FALSE]
    /\ lastCancelResult = [g \in Titles |-> "none"]
    /\ reported = [t \in TaskIds |-> <<>>]
    /\ active_tasks = <<>>
    /\ scans = 0
    /\ tasks_mutex_ = NoThread
    /\ active_operations_mutex_ = NoThread

\* ---- BasicAuthenticationManager and its IUserSettings
\* The keys the manager reads and writes, in the order it writes them.
AuthKeys == <<"auth.session_token", "auth.user_id", "auth.username", "auth.email">>
AuthKeySet == {AuthKeys[i] : i \in 1..Len(AuthKeys)}
\* The token the placeholder Login stores and LoadSession accepts.
kValidToken == "dummy_token_12345"
\* The credentials the placeholder Login accepts, and the profile it builds.
kTestUser == "testuser"
kTestPassword == "password"
UserProfile(user_id, username, email) ==
    [user_id |-> user_id, username |-> username, email |-> email]
\* What the settings may hold under each key when a manager is constructed:
\* no entry, an empty string, or a value.
StoredValues(key) ==
    {NullOpt, Some("")} \cup
    (CASE key = "auth.session_token" ->
              {Some(kValidToken), Some("invalid_dummy_token_67890")}
       [] key = "auth.user_id" -> {Some("user123")}
       [] key = "auth.username" -> {Some(kTestUser)}
       [] OTHER -> {Some("testuser@example.com")})
\* The arguments Login is called with.
Usernames == {"", kTestUser, "wronguser"}
Passwords == {"", kTestPassword, "wrongpassword"}

\* No call has been made on the manager; writes_ok says that no SetString
\* call has returned an error so far.
NoAuthCall == [op |-> "none", username |-> "", password |-> "", result |-> "none",
               written |-> <<>>, writes_ok |-> TRUE]

\* No authentication manager and empty settings.
NoAuth ==
    /\ user_settings_ = [k \in AuthKeySet |-> NullOpt]
    /\ auth_manager_ = FALSE
    /\ current_status_ = "kLoggedOut"
    /\ current_profile_ = NullOpt
    /\ authCall = NoAuthCall

\* ---- JsonUserSettings
\* AppSettings values: the default-constructed one and one that was set.
AppSettingsValues == {"default", "custom", "custom2"}
\* The settings file: missing, not openable, not JSON, JSON that does not
\* deserialize into AppSettings, or the dump of an AppSettings value.
SettingsFiles == {"absent", "unreadable", "malformed", "mistyped"} \cup AppSettingsValues
NoSettingsCall == [op |-> "none", result |-> "none"]

\* No JsonUserSettings object and no settings file.
NoSettings ==
    /\ settings_file = "absent"
    /\ json_settings_ = FALSE
    /\ current_settings_ = "default"
    /\ settings_dirty_ = FALSE
    /\ settingsCall = NoSettingsCall

NoAccount == NoAuth /\ NoSettings

Init == InitCore /\ CoreIPCService(Catalog) /\ NoAccount

\* ------------------------------------------------------- TaskInternal / registry

\* TaskInternal::UpdateProgress, also the body of the ProgressReporter handed
\* to the work function (the cancellation check of the reporter only logs).
UpdateProgress(t, percentage, description) ==
    /\ current_progress' = [current_progress EXCEPT ![t] = percentage]
    /\ current_description' = [current_description EXCEPT ![t] = description]
    /\ reported' = [reported EXCEPT ![t] = description]

InitialWork(kind) ==
    [NoWork EXCEPT !.pc = CASE kind = "generic" -> "g_run"
                           [] kind = "verify" -> "v_load"
                           [] OTHER -> "manifest"]

\* Variant of StartTask_Launch that reads next_task_id_ without the increment.
StartTask_Launch_NoIncrement(kind, title, initial_description) ==
    /\ next_task_id_ <= MaxTasks
    /\ LET current_id == next_task_id_ IN
        /\ next_task_id_' = next_task_id_
        /\ info' = [info EXCEPT ![current_id] =
                      [status |-> "kPending", progress_percentage |-> 0,
                       description |-> initial_description,
                       error_message |-> NullOpt]]
        /\ current_description' =
              [current_description EXCEPT ![current_id] = initial_description]
        /\ reported' = [reported EXCEPT ![current_id] = initial_description]
        /\ wpc' = [wpc EXCEPT ![current_id] = "start"]
        /\ work' = [work EXCEPT ![current_id] = InitialWork(kind)]
        /\ origin' = [origin EXCEPT ![current_id] = [kind |-> kind, title |-> title]]
        /\ reqpc' = [reqpc EXCEPT ![current_id] = "insert"]
    /\ UNCHANGED hubVars
    /\ UNCHANGED accountVars
    /\ UNCHANGED lockVars
    /\ UNCHANGED <<tasks_, cancellation_requested, current_progress, reqResult,
                   active_operations_, cancelling, cancelCalls, cancelReqs,
                   local_manifest, observed, active_tasks, scans,
                   cancelSeenActive, lastCancelResult>>

\* StartTask up to and including std::async: the id is taken, the
\* TaskInternal is built and the worker becomes runnable; tasks_ is not yet
\* written.
StartTask_Launch(kind, title, initial_description) ==
    /\ next_task_id_ <= MaxTasks
    /\ LET current_id == next_task_id_ IN
        /\ next_task_id_' = next_task_id_ + 1
        /\ info' = [info EXCEPT ![current_id] =
                      [status |-> "kPending", progress_percentage |-> 0,
                       description |-> initial_description,
                       error_message |-> NullOpt]]
        /\ current_description' =
              [current_description EXCEPT ![current_id] = initial_description]
        /\ reported' = [reported EXCEPT ![current_id] = initial_description]
        /\ wpc' = [wpc EXCEPT ![current_id] = "start"]
        /\ work' = [work EXCEPT ![current_id] = InitialWork(kind)]
        /\ origin' = [origin EXCEPT ![current_id] = [kind |-> kind, title |-> title]]
        /\ reqpc' = [reqpc EXCEPT ![current_id] = "insert"]
    /\ UNCHANGED hubVars
    /\ UNCHANGED accountVars
    /\ UNCHANGED lockVars
    /\ UNCHANGED <<tasks_, cancellation_requested, current_progress, reqResult,
                   active_operations_, cancelling, cancelCalls, cancelReqs,
                   local_manifest, observed, active_tasks, scans, cancelSeenActive, lastCancelResult>>

\* StartTask, the critical section that stores the task and the return.
StartTask_Store(t) ==
    /\ reqpc[t] = "insert"
    /\ Free(tasks_mutex_)
    /\ tasks_' = tasks_ \cup {t}
    /\ reqpc' = [reqpc EXCEPT ![t] =
                    IF origin[t].kind = "generic" THEN "returned" ELSE "register"]
    /\ UNCHANGED hubVars
    /\ UNCHANGED accountVars
    /\ UNCHANGED lockVars
    /\ UNCHANGED <<next_task_id_, info, cancellation_requested, current_progress,
                   current_description, reported, wpc, work, origin, reqResult,
                   active_operations_, cancelling, cancelCalls, cancelReqs,
                   local_manifest, observed, active_tasks, scans, cancelSeenActive, lastCancelResult>>

\* A caller of the registry starting a work function of its own.
StartTask_Generic == StartTask_Launch("generic", "", GenericInitial)

\* task_wrapper, first critical section.
Wrapper_Start(t) ==
    /\ wpc[t] = "start"
    /\ Free(tasks_mutex_)
    /\ IF t \in tasks_
         THEN /\ info' = [info EXCEPT ![t].status = "kRunning"]
              /\ wpc' = [wpc EXCEPT ![t] = "work"]
         ELSE \* "not found at start": the wrapper returns false, work never runs
              /\ wpc' = [wpc EXCEPT ![t] = "lost"]
              /\ UNCHANGED info
    /\ UNCHANGED hubVars
    /\ UNCHANGED accountVars
    /\ UNCHANGED lockVars
    /\ UNCHANGED <<next_task_id_, tasks_, cancellation_requested, current_progress,
                   current_description, reported, work, origin, reqpc, reqResult,
                   active_operations_, cancelling, cancelCalls, cancelReqs,
                   local_manifest, observed, active_tasks, scans, cancelSeenActive, lastCancelResult>>

\* Variants of FinalInfo with one slip each.
\* The cancelled branch writes the wrong enumerator.
FinalInfo_CancelledToPending(old, cancelled, success, error_msg, cur_description) ==
    IF cancelled
      THEN [old EXCEPT !.status = "kPending", !.description = cur_description]
      ELSE IF success
        THEN [old EXCEPT !.status = "kSucceeded",
                         !.progress_percentage = Percent(100),
                         !.description = cur_description]
        ELSE [old EXCEPT !.status = "kFailed",
                         !.error_message =
                             Some(IF error_msg = "" THEN "Task failed" ELSE error_msg),
                         !.description = cur_description]

\* The success test comes before the cancellation test.
FinalInfo_SuccessFirst(old, cancelled, success, error_msg, cur_description) ==
    IF success
      THEN [old EXCEPT !.status = "kSucceeded",
                       !.progress_percentage = Percent(100),
                       !.description = cur_description]
      ELSE IF cancelled
        THEN [old EXCEPT !.status = "kCancelled", !.description = cur_description]
        ELSE [old EXCEPT !.status = "kFailed",
                         !.error_message =
                             Some(IF error_msg = "" THEN "Task failed" ELSE error_msg),
                         !.description = cur_description]

\* The caught message is stored as it is, without the "Task failed" default.
FinalInfo_RawMessage(old, cancelled, success, error_msg, cur_description) ==
    IF cancelled
      THEN [old EXCEPT !.status = "kCancelled", !.description = cur_description]
      ELSE IF success
        THEN [old EXCEPT !.status = "kSucceeded",
                         !.progress_percentage = Percent(100),
                         !.description = cur_description]
        ELSE [old EXCEPT !.status = "kFailed",
                         !.error_message = Some(error_msg),
                         !.description = cur_description]

\* The error message is stored before the status is decided.
FinalInfo_ErrorOnCancel(old, cancelled, success, error_msg, cur_description) ==
    IF cancelled
      THEN [old EXCEPT !.status = "kCancelled",
                       !.error_message = Some("Task cancelled"),
                       !.description = cur_description]
      ELSE IF success
        THEN [old EXCEPT !.status = "kSucceeded",
                         !.progress_percentage = Percent(100),
                         !.description = cur_description]
        ELSE [old EXCEPT !.status = "kFailed",
                         !.error_message =
                             Some(IF error_msg = "" THEN "Task failed" ELSE error_msg),
                         !.description = cur_description]

\* The info the last critical section of task_wrapper leaves in the task.
FinalInfo(old, cancelled, success, error_msg, cur_description) ==
    IF cancelled
      THEN [old EXCEPT !.status = "kCancelled", !.description = cur_description]
      ELSE IF success
        THEN [old EXCEPT !.status = "kSucceeded",
                         !.progress_percentage = Percent(100),
                         !.description = cur_description]
        ELSE [old EXCEPT !.status = "kFailed",
                         !.error_message =
                             Some(IF error_msg = "" THEN "Task failed" ELSE error_msg),
                         !.description = cur_description]

\* task_wrapper, "Update final status"; the future becomes ready on return.
Wrapper_Final(t) ==
    /\ wpc[t] = "final"
    /\ Free(tasks_mutex_)
    /\ IF t \in tasks_
         THEN info' = [info EXCEPT ![t] =
                  FinalInfo(info[t], cancellation_requested[t], work[t].success,
                            work[t].err, current_description[t])]
         ELSE UNCHANGED info
    /\ wpc' = [wpc EXCEPT ![t] = "done"]
    /\ UNCHANGED hubVars
    /\ UNCHANGED accountVars
    /\ UNCHANGED lockVars
    /\ UNCHANGED <<next_task_id_, tasks_, cancellation_requested, current_progress,
                   current_description, reported, work, origin, reqpc, reqResult,
                   active_operations_, cancelling, cancelCalls, cancelReqs,
                   local_manifest, observed, active_tasks, scans, cancelSeenActive, lastCancelResult>>

\* The work function is over: it returned `success`, or it threw and the
\* catch clauses of task_wrapper set success = false and error_msg. The
\* record keeps how the work ended.
WorkEnds(t, success, error_msg, threw) ==
    /\ work' = [work EXCEPT ![t] = [NoWork EXCEPT !.pc = "returned",
                                             !.success = success,
                                             !.err = error_msg,
                                             !.threw = threw]]
    /\ wpc' = [wpc EXCEPT ![t] = "final"]

\* error_msg after the catch clauses of task_wrapper.
CaughtMessage(what) == IF what = "..." THEN "Unknown error" ELSE what

\* ---- an arbitrary work function handed to StartTask
Generic_Report(t) ==
    /\ wpc[t] = "work" /\ work[t].pc = "g_run"
    /\ work[t].reports < MaxReports
    /\ \E r \in GenericReports : UpdateProgress(t, r[1], r[2])
    /\ work' = [work EXCEPT ![t].reports = @ + 1]
    /\ UNCHANGED hubVars
    /\ UNCHANGED accountVars
    /\ UNCHANGED lockVars
    /\ UNCHANGED <<next_task_id_, tasks_, info, cancellation_requested, wpc, origin,
                   reqpc, reqResult, active_operations_, cancelling, cancelCalls,
                   cancelReqs, local_manifest, observed, active_tasks, scans, cancelSeenActive,
                   lastCancelResult>>

Generic_Return(t) ==
    /\ wpc[t] = "work" /\ work[t].pc = "g_run"
    /\ \E success \in BOOLEAN : WorkEnds(t, success, "", FALSE)
    /\ UNCHANGED hubVars
    /\ UNCHANGED accountVars
    /\ UNCHANGED lockVars
    /\ UNCHANGED <<next_task_id_, tasks_, info, cancellation_requested,
                   current_progress, current_description, reported, origin,
                   reqpc, reqResult, active_operations_, cancelling, cancelCalls,
                   cancelReqs, local_manifest, observed, active_tasks, scans, cancelSeenActive,
                   lastCancelResult>>

Generic_Throw(t) ==
    /\ wpc[t] = "work" /\ work[t].pc = "g_run"
    /\ \E what \in ExceptionWhats : WorkEnds(t, FALSE, CaughtMessage(what), TRUE)
    /\ UNCHANGED hubVars
    /\ UNCHANGED accountVars
    /\ UNCHANGED lockVars
    /\ UNCHANGED <<next_task_id_, tasks_, info, cancellation_requested,
                   current_progress, current_description, reported, origin,
                   reqpc, reqResult, active_operations_, cancelling, cancelCalls,
                   cancelReqs, local_manifest, observed, active_tasks, scans, cancelSeenActive,
                   lastCancelResult>>

\* Variant of TaskInfoCopy without the refresh from current_description.
TaskInfoCopy_StoredDescription(t) ==
    [status |-> info[t].status,
     progress_percentage |-> current_progress[t],
     description |-> info[t].description,
     error_message |-> info[t].error_message]

\* ---- GetTaskInfo: the copy it returns for a stored task; the caller keeps
\* the status of the last copy it was given.
TaskInfoCopy(t) ==
    [status |-> info[t].status,
     progress_percentage |-> current_progress[t],
     description |-> current_description[t],
     error_message |-> info[t].error_message]

GetTaskInfo(t) ==
    /\ wpc[t] # "unborn"
    /\ Free(tasks_mutex_)
    /\ observed' = [observed EXCEPT ![t] =
                       IF t \in tasks_ THEN <<TaskInfoCopy(t).status>> ELSE @]
    /\ UNCHANGED hubVars
    /\ UNCHANGED accountVars
    /\ UNCHANGED lockVars
    /\ UNCHANGED <<next_task_id_, tasks_, info, cancellation_requested,
                   current_progress, current_description, reported, wpc, work, origin, reqpc,
                   reqResult, active_operations_, cancelling, cancelCalls,
                   cancelReqs, local_manifest, cancelSeenActive, lastCancelResult,
                   active_tasks, scans>>

\* ---- GetActiveTasks: one scan of tasks_ under tasks_mutex_.
\* The future of a task is ready once its task_wrapper has returned.
FutureReady(t) == wpc[t] \in {"lost", "done"}

\* current_status of one iteration: the status of the copy, read again from
\* the task when the task is Pending or Running and its future is ready.
ScannedStatus(t) ==
    LET current_status == info[t].status IN
      IF current_status \in {"kPending", "kRunning"} /\ FutureReady(t)
        THEN info[t].status
        ELSE current_status

\* Variant of IsActiveStatus that leaves out the tasks not yet running.
IsActiveStatus_RunningOnly(current_status) == current_status = "kRunning"

\* The test that decides whether the copy is pushed to active_tasks.
IsActiveStatus(current_status) ==
    current_status \in {"kPending", "kRunning", "kPaused"}

GetActiveTasks ==
    /\ scans < MaxScans
    /\ Free(tasks_mutex_)
    /\ scans' = scans + 1
    /\ active_tasks' = <<{t \in tasks_ : IsActiveStatus(ScannedStatus(t))}>>
    /\ UNCHANGED hubVars
    /\ UNCHANGED accountVars
    /\ UNCHANGED lockVars
    /\ UNCHANGED <<next_task_id_, tasks_, info, cancellation_requested,
                   current_progress, current_description, reported, wpc, work,
                   origin, reqpc, reqResult, active_operations_, cancelling,
                   cancelCalls, cancelReqs, local_manifest, observed,
                   cancelSeenActive, lastCancelResult>>

\* ---- RequestCancellation
CancellableNow(t) == t \in tasks_ /\ info[t].status \in {"kPending", "kRunning"}

\* cancellation_requested after RequestCancellation(t).
CancellationAfterRequest(t) ==
    IF CancellableNow(t)
      THEN [cancellation_requested EXCEPT ![t] = TRUE]
      ELSE cancellation_requested

\* The body of RequestCancellation, shared by its three callers.
RequestCancellationBody(t) ==
    /\ cancellation_requested' = CancellationAfterRequest(t)
    /\ cancelSeenActive' = [cancelSeenActive EXCEPT ![t] = @ \/ CancellableNow(t)]

\* Variant of RequestCancellation that also marks the task Cancelled at once.
RequestCancellation_Forceful(t) ==
    /\ wpc[t] # "unborn"
    /\ cancelReqs < MaxCancelReqs
    /\ Free(tasks_mutex_)
    /\ cancelReqs' = cancelReqs + 1
    /\ RequestCancellationBody(t)
    /\ info' = [info EXCEPT ![t].status =
                   IF CancellableNow(t) THEN "kCancelled" ELSE @]
    /\ UNCHANGED hubVars
    /\ UNCHANGED accountVars
    /\ UNCHANGED lockVars
    /\ UNCHANGED <<next_task_id_, tasks_, current_progress,
                   current_description, reported, wpc, work, origin, reqpc, reqResult,
                   active_operations_, cancelling, cancelCalls, local_manifest,
                   observed, active_tasks, scans, lastCancelResult>>

RequestCancellation(t) ==
    /\ wpc[t] # "unborn"
    /\ cancelReqs < MaxCancelReqs
    /\ Free(tasks_mutex_)
    /\ cancelReqs' = cancelReqs + 1
    /\ RequestCancellationBody(t)
    /\ UNCHANGED hubVars
    /\ UNCHANGED accountVars
    /\ UNCHANGED lockVars
    /\ UNCHANGED <<next_task_id_, tasks_, info, current_progress,
                   current_description, reported, wpc, work, origin, reqpc, reqResult,
                   active_operations_, cancelling, cancelCalls, local_manifest,
                   observed, active_tasks, scans, lastCancelResult>>

\* --------------------------------------------- BasicGameManagementService

OperationDescription(kind, title) ==
    CASE kind = "install" -> <<"Installing ", title>>
      [] kind = "update" -> <<"Updating ", title>>
      [] OTHER -> <<"Verifying ", title>>

\* InstallGame / UpdateGame / VerifyGame up to the std::async inside
\* StartTask. FindInstallPath always succeeds; a failure of
\* EnsureDirectoryExists returns before anything is touched.
Operation_Start(kind, title) ==
    StartTask_Launch(kind, title, OperationDescription(kind, title))

InstallGame_Start(title) == Operation_Start("install", title)
UpdateGame_Start(title) == Operation_Start("update", title)
VerifyGame_Start(title) == Operation_Start("verify", title)

\* "Register Active Operation": the critical section on
\* active_operations_mutex_. With no entry for the title the entry is
\* inserted and the call returns. With an entry the thread calls
\* RequestCancellation for the task it has just started, without leaving the
\* critical section: the step ends inside RequestCancellation, where the
\* thread has locked tasks_mutex_ too.
Operation_Register(t) ==
    /\ reqpc[t] = "register"
    /\ Free(active_operations_mutex_)
    /\ LET title == origin[t].title IN
         IF active_operations_[title] # kInvalidTaskId
           THEN /\ Free(tasks_mutex_)
                /\ active_operations_mutex_' = RequestThread(t)
                /\ tasks_mutex_' = RequestThread(t)
                /\ reqpc' = [reqpc EXCEPT ![t] = "reject"]
                /\ UNCHANGED <<active_operations_, reqResult>>
           ELSE /\ active_operations_' = [active_operations_ EXCEPT ![title] = t]
                /\ reqResult' = [reqResult EXCEPT ![t] = "OK"]
                /\ reqpc' = [reqpc EXCEPT ![t] = "returned"]
                /\ UNCHANGED lockVars
    /\ UNCHANGED hubVars
    /\ UNCHANGED accountVars
    /\ UNCHANGED <<next_task_id_, tasks_, info, current_progress,
                   current_description, reported, wpc, work, origin, cancelling, cancelCalls,
                   cancelReqs, local_manifest, observed, active_tasks, scans, lastCancelResult,
                   cancellation_requested, cancelSeenActive>>

\* The rejected path from inside RequestCancellation to the return of
\* AlreadyExistsError, which unlocks tasks_mutex_ and then
\* active_operations_mutex_.
Operation_Reject(t) ==
    /\ reqpc[t] = "reject"
    /\ RequestCancellationBody(t)
    /\ tasks_mutex_' = Unlock(tasks_mutex_, RequestThread(t))
    /\ active_operations_mutex_' = Unlock(active_operations_mutex_, RequestThread(t))
    /\ reqResult' = [reqResult EXCEPT ![t] = "AlreadyExists"]
    /\ reqpc' = [reqpc EXCEPT ![t] = "returned"]
    /\ UNCHANGED hubVars
    /\ UNCHANGED accountVars
    /\ UNCHANGED <<next_task_id_, tasks_, info, current_progress,
                   current_description, reported, wpc, work, origin, active_operations_,
                   cancelling, cancelCalls, cancelReqs, local_manifest, observed,
                   active_tasks, scans, lastCancelResult>>

\* Variant of CancelOperationResult that reports success in every case.
CancelOperationResult_AlwaysOk(found) == "OK"

\* The status CancelOperation returns.
CancelOperationResult(found) == IF found THEN "OK" ELSE "NotFound"

\* Variant of ActiveOperationsAfterCancel that leaves the entry in the map.
ActiveOperationsAfterCancel_Kept(title) == active_operations_

\* active_operations_ after the erase of the entry CancelOperation found.
ActiveOperationsAfterCancel(title) ==
    [active_operations_ EXCEPT ![title] = kInvalidTaskId]

\* CancelOperation, the critical section on active_operations_mutex_; the
\* status is the one the call returns after the section.
CancelOperation_Erase(title) ==
    /\ cancelCalls < MaxCancels
    /\ Free(active_operations_mutex_)
    /\ cancelCalls' = cancelCalls + 1
    /\ LET found == active_operations_[title] # kInvalidTaskId IN
         /\ lastCancelResult' =
               [lastCancelResult EXCEPT ![title] = CancelOperationResult(found)]
         /\ IF found
              THEN /\ cancelling' = cancelling \cup {active_operations_[title]}
                   /\ active_operations_' = ActiveOperationsAfterCancel(title)
              ELSE UNCHANGED <<cancelling, active_operations_>>
    /\ UNCHANGED hubVars
    /\ UNCHANGED accountVars
    /\ UNCHANGED lockVars
    /\ UNCHANGED <<next_task_id_, tasks_, info, cancellation_requested,
                   current_progress, current_description, reported, wpc, work, origin, reqpc,
                   reqResult, cancelReqs, local_manifest, observed, active_tasks, scans,
                   cancelSeenActive>>

\* CancelOperation, "if (found)": the call forwarded to the registry.
CancelOperation_Forward(t) ==
    /\ t \in cancelling
    /\ Free(tasks_mutex_)
    /\ cancelling' = cancelling \ {t}
    /\ RequestCancellationBody(t)
    /\ UNCHANGED hubVars
    /\ UNCHANGED accountVars
    /\ UNCHANGED lockVars
    /\ UNCHANGED <<next_task_id_, tasks_, info, current_progress,
                   current_description, reported, wpc, work, origin, reqpc, reqResult,
                   active_operations_, cancelCalls, cancelReqs, local_manifest,
                   observed, active_tasks, scans, lastCancelResult>>

\* ---- the closures installation_task and update_task
IsPipeline(t) == origin[t].kind \in {"install", "update"}
AtWork(t, pc) == wpc[t] = "work" /\ work[t].pc = pc

\* The closure leaves its try block with `success`; what is left is the
\* absl::Cleanup.
ClosureEnds(t, success) ==
    work' = [work EXCEPT ![t] = [NoWork EXCEPT !.pc = "cleanup", !.success = success]]

\* The stub DownloadFile of the service.
DownloadFile == "Unimplemented"

FileProgress(files_processed, total_files) ==
    Frac(15, 100) + (files_processed * Frac(80, 100)) \div total_files

TotalFiles(m) == IF m.n = 0 THEN 1 ELSE m.n

Pipeline_Manifest(t) ==
    /\ IsPipeline(t) /\ AtWork(t, "manifest")
    /\ UpdateProgress(t, Frac(5, 100), <<"Downloading manifest...">>)
    /\ \E downloaded \in BOOLEAN :
         IF downloaded THEN work' = [work EXCEPT ![t].pc = "parse"]
                       ELSE ClosureEnds(t, FALSE)
    /\ UNCHANGED hubVars
    /\ UNCHANGED accountVars
    /\ UNCHANGED lockVars
    /\ UNCHANGED <<next_task_id_, tasks_, info, cancellation_requested, wpc, origin,
                   reqpc, reqResult, active_operations_, cancelling, cancelCalls,
                   cancelReqs, local_manifest, observed, active_tasks, scans, cancelSeenActive,
                   lastCancelResult>>

Pipeline_Parse(t) ==
    /\ IsPipeline(t) /\ AtWork(t, "parse")
    /\ UpdateProgress(t, Frac(10, 100), <<"Parsing manifest...">>)
    /\ \/ ClosureEnds(t, FALSE)       \* json::parse_error
       \/ \E m \in Manifests :
            work' = [work EXCEPT ![t].pc = "validate", ![t].manifest = <<m>>]
    /\ UNCHANGED hubVars
    /\ UNCHANGED accountVars
    /\ UNCHANGED lockVars
    /\ UNCHANGED <<next_task_id_, tasks_, info, cancellation_requested, wpc, origin,
                   reqpc, reqResult, active_operations_, cancelling, cancelCalls,
                   cancelReqs, local_manifest, observed, active_tasks, scans, cancelSeenActive,
                   lastCancelResult>>

\* Variant of ManifestValid that accepts every document that parses.
ManifestValid_AnyDocument(manifest_data) == TRUE

\* "Validate Manifest": the document has a member "files" that is an array.
ManifestValid(manifest_data) == manifest_data.files = "array"

Pipeline_Validate(t) ==
    /\ IsPipeline(t) /\ AtWork(t, "validate")
    /\ UpdateProgress(t, Frac(15, 100), <<"Validating manifest...">>)
    /\ LET m == work[t].manifest[1] IN
         IF ~ManifestValid(m) THEN ClosureEnds(t, FALSE)
         ELSE work' = [work EXCEPT ![t].pc = IF m.n = 0 THEN "save" ELSE "file",
                                   ![t].idx = 0]
    /\ UNCHANGED hubVars
    /\ UNCHANGED accountVars
    /\ UNCHANGED lockVars
    /\ UNCHANGED <<next_task_id_, tasks_, info, cancellation_requested, wpc, origin,
                   reqpc, reqResult, active_operations_, cancelling, cancelCalls,
                   cancelReqs, local_manifest, observed, active_tasks, scans, cancelSeenActive,
                   lastCancelResult>>

\* Variant of AbortAtFile that goes on with the next file of the manifest.
AbortAtFile_NextFile(t) ==
    work' = [work EXCEPT
               ![t].idx = @ + 1,
               ![t].pc = IF work[t].idx + 1 = work[t].manifest[1].n
                           THEN "save" ELSE "file"]

\* "return false" inside the file loop: the closure leaves the loop and its
\* try block.
AbortAtFile(t) == ClosureEnds(t, FALSE)

\* The fraction of the report the loop makes when VerifyFileHash fails.
HashMismatchProgress(files_processed, total_files) ==
    Frac(files_processed + 1, total_files)

\* The body of one iteration of the file loop, for the status that the call
\* of DownloadFile returns: both progress reports, DownloadFile and
\* VerifyFileHash.
FileIteration(t, download_status) ==
    /\ IsPipeline(t) /\ AtWork(t, "file")
    /\ LET m == work[t].manifest[1]
           files_processed == work[t].idx
           total_files == TotalFiles(m)
       IN IF download_status # "OK"
            THEN /\ UpdateProgress(t, FileProgress(files_processed, total_files),
                                   <<"Downloading: ", files_processed>>)
                 /\ AbortAtFile(t)
            ELSE \E hash_ok \in BOOLEAN :
                   IF hash_ok
                     THEN /\ UpdateProgress(t, FileProgress(files_processed, total_files),
                                            <<"Downloading: ", files_processed>>)
                          /\ work' = [work EXCEPT
                                 ![t].idx = files_processed + 1,
                                 ![t].pc = IF files_processed + 1 = m.n
                                             THEN "save" ELSE "file"]
                     ELSE /\ UpdateProgress(t, HashMismatchProgress(files_processed,
                                                                     total_files),
                                            <<"Hash mismatch for: ", files_processed>>)
                          /\ AbortAtFile(t)
    /\ UNCHANGED hubVars
    /\ UNCHANGED accountVars
    /\ UNCHANGED lockVars
    /\ UNCHANGED <<next_task_id_, tasks_, info, cancellation_requested, wpc, origin,
                   reqpc, reqResult, active_operations_, cancelling, cancelCalls,
                   cancelReqs, local_manifest, observed, active_tasks, scans, cancelSeenActive,
                   lastCancelResult>>

\* One iteration of the file loop in the service as it is built: the call
\* of DownloadFile reaches the stub.
Pipeline_File(t) == FileIteration(t, DownloadFile)

\* One iteration of the file loop taken alone, for either status of the
\* download, so that the branches behind a completed download are exercised.
FileLoop_Iteration(t) ==
    \E download_status \in {"OK", "Unimplemented"} : FileIteration(t, download_status)

\* SaveLocalManifest writing the file: the document is dumped as JSON text,
\* which LoadLocalManifest parses into the same document.
SaveLocalManifest(game_id, manifest_data) ==
    local_manifest' = [local_manifest EXCEPT ![game_id] = <<manifest_data>>]

\* LoadLocalManifest: <<>> for NotFoundError, else the document of the file.
LoadLocalManifest(game_id) == local_manifest[game_id]

Pipeline_Save(t) ==
    /\ IsPipeline(t) /\ AtWork(t, "save")
    /\ UpdateProgress(t, Frac(95, 100), <<"Saving local manifest...">>)
    /\ \E saved \in BOOLEAN :
         IF saved
           THEN /\ SaveLocalManifest(origin[t].title, work[t].manifest[1])
                /\ work' = [work EXCEPT ![t].pc = "complete"]
           ELSE /\ ClosureEnds(t, FALSE)
                /\ UNCHANGED local_manifest
    /\ UNCHANGED hubVars
    /\ UNCHANGED accountVars
    /\ UNCHANGED lockVars
    /\ UNCHANGED <<next_task_id_, tasks_, info, cancellation_requested, wpc, origin,
                   reqpc, reqResult, active_operations_, cancelling, cancelCalls,
                   cancelReqs, observed, active_tasks, scans, cancelSeenActive, lastCancelResult>>

Pipeline_Complete(t) ==
    /\ IsPipeline(t) /\ AtWork(t, "complete")
    /\ UpdateProgress(t, Frac(1, 1),
          IF origin[t].kind = "install" THEN <<"Installation complete.">>
                                        ELSE <<"Update complete.">>)
    /\ ClosureEnds(t, TRUE)
    /\ UNCHANGED hubVars
    /\ UNCHANGED accountVars
    /\ UNCHANGED lockVars
    /\ UNCHANGED <<next_task_id_, tasks_, info, cancellation_requested, wpc, origin,
                   reqpc, reqResult, active_operations_, cancelling, cancelCalls,
                   cancelReqs, local_manifest, observed, active_tasks, scans, cancelSeenActive,
                   lastCancelResult>>

\* ---- the closure verification_task
\* What the verification finds on disk for a file the manifest lists.
FileStates == {"intact", "corrupt", "missing"}

\* file_exists && hash_matches of one iteration; hash_matches is the
\* placeholder `true`, the hash of the file is not computed.
FileVerified(file_state) ==
    LET file_exists == file_state # "missing"
        hash_matches == TRUE
    IN file_exists /\ hash_matches

\* failed_files after the loop: the paths pushed back, in order.
RECURSIVE FailedFiles(_)
FailedFiles(checked) ==
    IF checked = <<>> THEN <<>>
    ELSE FailedFiles(SubSeq(checked, 1, Len(checked) - 1))
           \o (IF FileVerified(checked[Len(checked)]) THEN <<>>
                                                      ELSE <<Len(checked) - 1>>)

\* Loading the manifest, the "files" check and the size of "files".
Verify_Load(t) ==
    /\ origin[t].kind = "verify" /\ AtWork(t, "v_load")
    /\ UpdateProgress(t, Frac(5, 100), <<"Loading local manifest...">>)
    /\ LET stored == LoadLocalManifest(origin[t].title) IN
         IF stored = <<>> THEN ClosureEnds(t, FALSE)
         ELSE LET m == stored[1] IN
           IF m.files = "absent" THEN ClosureEnds(t, FALSE)
           ELSE work' = [work EXCEPT ![t].pc = IF m.n = 0 THEN "v_done" ELSE "v_file",
                                     ![t].manifest = stored,
                                     ![t].idx = 0]
    /\ UNCHANGED hubVars
    /\ UNCHANGED accountVars
    /\ UNCHANGED lockVars
    /\ UNCHANGED <<next_task_id_, tasks_, info, cancellation_requested, wpc, origin,
                   reqpc, reqResult, active_operations_, cancelling, cancelCalls,
                   cancelReqs, local_manifest, observed, active_tasks, scans, cancelSeenActive,
                   lastCancelResult>>

\* One iteration of the verification loop. it.key() throws
\* json::invalid_iterator when "files" is an array, which the closure
\* catches; for an object the key is the path of the file, and
\* work[t].checked keeps what the iterations found.
Verify_File(t) ==
    /\ origin[t].kind = "verify" /\ AtWork(t, "v_file")
    /\ LET m == work[t].manifest[1]
           files_processed == work[t].idx
       IN IF m.files = "array"
            THEN /\ ClosureEnds(t, FALSE)
                 /\ UNCHANGED <<current_progress, current_description, reported>>
            ELSE /\ UpdateProgress(t, Frac(10, 100)
                                        + (files_processed * Frac(85, 100)) \div m.n,
                                   <<"Verifying ", files_processed, "...">>)
                 /\ \E file_state \in FileStates :
                      work' = [work EXCEPT
                                 ![t].idx = files_processed + 1,
                                 ![t].checked = Append(@, file_state),
                                 ![t].pc = IF files_processed + 1 = m.n
                                             THEN "v_done" ELSE "v_file"]
    /\ UNCHANGED hubVars
    /\ UNCHANGED accountVars
    /\ UNCHANGED lockVars
    /\ UNCHANGED <<next_task_id_, tasks_, info, cancellation_requested, wpc, origin,
                   reqpc, reqResult, active_operations_, cancelling, cancelCalls,
                   cancelReqs, local_manifest, observed, active_tasks, scans, cancelSeenActive,
                   lastCancelResult>>

\* "Finalize Status": error_msg, which lists failed_files, is only logged.
Verify_Done(t) ==
    /\ origin[t].kind = "verify" /\ AtWork(t, "v_done")
    /\ LET verification_failed == FailedFiles(work[t].checked) # <<>> IN
         /\ UpdateProgress(t, Frac(1, 1),
               IF verification_failed THEN <<"Verification failed.">>
                                      ELSE <<"Verification complete.">>)
         /\ ClosureEnds(t, ~verification_failed)
    /\ UNCHANGED hubVars
    /\ UNCHANGED accountVars
    /\ UNCHANGED lockVars
    /\ UNCHANGED <<next_task_id_, tasks_, info, cancellation_requested, wpc, origin,
                   reqpc, reqResult, active_operations_, cancelling, cancelCalls,
                   cancelReqs, local_manifest, observed, active_tasks, scans, cancelSeenActive,
                   lastCancelResult>>

\* ---- absl::Cleanup of the three closures, then the return to task_wrapper
ActiveOperationsAfterCleanup(t) ==
    [active_operations_ EXCEPT ![origin[t].title] = kInvalidTaskId]

Closure_Cleanup(t) ==
    /\ AtWork(t, "cleanup")
    /\ Free(active_operations_mutex_)
    /\ active_operations_' = ActiveOperationsAfterCleanup(t)
    /\ WorkEnds(t, work[t].success, "", FALSE)
    /\ UNCHANGED hubVars
    /\ UNCHANGED accountVars
    /\ UNCHANGED lockVars
    /\ UNCHANGED <<next_task_id_, tasks_, info, cancellation_requested,
                   current_progress, current_description, reported, origin, reqpc, reqResult,
                   cancelling, cancelCalls, cancelReqs, local_manifest, observed, active_tasks, scans,
                   cancelSeenActive, lastCancelResult>>

\* ------------------------------------------------------------ CoreIPCService

\* A thread may enter a call of the interface.
CanCall(h) ==
    /\ hub[h].pc \in {"idle", "returned", "threw"}
    /\ hubCalls < MaxHubCalls

\* The record of a call that has just been entered.
Call(op, listener, game_id) ==
    [NoCall EXCEPT !.n = hubCalls + 1, !.op = op, !.pc = "running",
                   !.listener = listener, !.game_id = game_id]

\* The call is over: normally ("returned") or by an exception ("threw").
Leave(call, pc, result) == [call EXCEPT !.pc = pc, !.result = result]


\* Membership test of the duplicate check and of std::find.
Contains(seq, x) == \E i \in 1..Len(seq) : seq[i] = x

\* Variant of AlreadyAdded that compares with the last listener only.
AlreadyAdded_LastOnly(listener) ==
    listeners_ # <<>> /\ listeners_[Len(listeners_)] = listener

\* AddStatusListener, "Avoid adding duplicates".
AlreadyAdded(listener) == Contains(listeners_, listener)

\* Variant of CurrentStatuses that stops after the first entry.
CurrentStatuses_FirstOnly ==
    LET known == {i \in 1..Len(CatalogOrder) :
                     current_game_statuses_[CatalogOrder[i]] # NoStatus}
    IN IF known = {} THEN <<>>
       ELSE <<current_game_statuses_[
                  CatalogOrder[CHOOSE i \in known : \A j \in known : i <= j]]>>

\* The copy of current_game_statuses_ made under games_mutex_, in the order
\* of the map.
CurrentStatuses ==
    LET known(i) == current_game_statuses_[CatalogOrder[i]] # NoStatus
        RECURSIVE collect(_)
        collect(i) ==
            IF i > Len(CatalogOrder) THEN <<>>
            ELSE (IF known(i) THEN <<current_game_statuses_[CatalogOrder[i]]>>
                              ELSE <<>>) \o collect(i + 1)
    IN collect(1)

\* AddStatusListener up to push_back: the null check, listeners_mutex_, the
\* duplicate check. The mutex stays locked for the rest of the call.
AddStatusListener_Call(h, listener) ==
    /\ CanCall(h)
    /\ hubCalls' = hubCalls + 1
    /\ LET call == Call("AddStatusListener", listener, "") IN
       IF listener = nullptr
         THEN /\ hub' = [hub EXCEPT ![h] = Leave(call, "returned", "null")]
              /\ UNCHANGED <<listeners_, listeners_mutex_>>
         ELSE /\ listeners_mutex_ = NoThread
              /\ IF AlreadyAdded(listener)
                   THEN /\ hub' = [hub EXCEPT ![h] =
                                     Leave(call, "returned", "duplicate")]
                        /\ UNCHANGED <<listeners_, listeners_mutex_>>
                   ELSE /\ listeners_' = Append(listeners_, listener)
                        /\ listeners_mutex_' = h
                        /\ hub' = [hub EXCEPT ![h] = [call EXCEPT !.pc = "snapshot"]]
    /\ UNCHANGED <<current_game_statuses_, games_mutex_, monitor_pc>>
    /\ UNCHANGED active_game_tasks_
    /\ UNCHANGED coreVars
    /\ UNCHANGED accountVars

\* AddStatusListener, the block that locks games_mutex_ and copies the
\* statuses; with nothing to deliver the call returns.
AddStatusListener_Snapshot(h) ==
    /\ hub[h].pc = "snapshot"
    /\ games_mutex_ = NoThread
    /\ LET current_statuses == CurrentStatuses IN
       IF current_statuses = <<>>
         THEN /\ hub' = [hub EXCEPT ![h] = Leave(@, "returned", "added")]
              /\ listeners_mutex_' = Unlock(listeners_mutex_, h)
         ELSE /\ hub' = [hub EXCEPT ![h].pc = "notify",
                                    ![h].updates = current_statuses]
              /\ UNCHANGED listeners_mutex_
    /\ UNCHANGED <<listeners_, current_game_statuses_, games_mutex_, hubCalls,
                   monitor_pc>>
    /\ UNCHANGED active_game_tasks_
    /\ UNCHANGED coreVars
    /\ UNCHANGED accountVars

\* The thread after one call of OnGameStatusUpdate that ended with `outcome`;
\* `last` says that the loop has no further call to make.
AfterCallback(call, listener, update, outcome, last) ==
    LET done == [call EXCEPT !.delivered = Append(@, <<listener, update>>)] IN
      CASE outcome = "throws" -> Leave(done, "threw", "exception")
        [] outcome = "blocks" -> [done EXCEPT !.pc = "blocked"]
        [] OTHER -> IF last THEN Leave(done, "returned", "OK") ELSE done

\* NotifyListener: one iteration of its loop over the copied statuses.
NotifyListener_Callback(h) ==
    /\ hub[h].pc = "notify"
    /\ LET i == Len(hub[h].delivered) + 1 IN
       \E outcome \in CallbackOutcomes :
         /\ hub' = [hub EXCEPT ![h] =
                       AfterCallback(@, hub[h].listener, hub[h].updates[i], outcome,
                                     i = Len(hub[h].updates))]
         /\ listeners_mutex_' =
               IF hub'[h].pc \in {"returned", "threw"}
                 THEN Unlock(listeners_mutex_, h) ELSE listeners_mutex_
    /\ UNCHANGED <<listeners_, current_game_statuses_, games_mutex_, hubCalls,
                   monitor_pc>>
    /\ UNCHANGED active_game_tasks_
    /\ UNCHANGED coreVars
    /\ UNCHANGED accountVars

\* Variant of RemoveFirst that erases from the found position to the end.
RECURSIVE RemoveFirst_ToEnd(_, _)
RemoveFirst_ToEnd(seq, x) ==
    IF seq = <<>> THEN <<>>
    ELSE IF Head(seq) = x THEN <<>>
    ELSE <<Head(seq)>> \o RemoveFirst_ToEnd(Tail(seq), x)

\* std::find followed by erase of the position found.
RECURSIVE RemoveFirst(_, _)
RemoveFirst(seq, x) ==
    IF seq = <<>> THEN <<>>
    ELSE IF Head(seq) = x THEN Tail(seq)
    ELSE <<Head(seq)>> \o RemoveFirst(Tail(seq), x)

RemoveStatusListener(h, listener) ==
    /\ CanCall(h)
    /\ hubCalls' = hubCalls + 1
    /\ LET call == Call("RemoveStatusListener", listener, "") IN
       IF listener = nullptr
         THEN /\ hub' = [hub EXCEPT ![h] = Leave(call, "returned", "null")]
              /\ UNCHANGED listeners_
         ELSE /\ listeners_mutex_ = NoThread
              /\ listeners_' = RemoveFirst(listeners_, listener)
              /\ hub' = [hub EXCEPT ![h] =
                    Leave(call, "returned",
                          IF Contains(listeners_, listener) THEN "removed"
                                                            ELSE "not found")]
    /\ UNCHANGED <<current_game_statuses_, listeners_mutex_, games_mutex_,
                   monitor_pc>>
    /\ UNCHANGED active_game_tasks_
    /\ UNCHANGED coreVars
    /\ UNCHANGED accountVars

\* Variant of LaunchingStatus that keeps the state and changes the message only.
LaunchingStatus_MessageOnly(status) ==
    [status EXCEPT !.progress_percent = 0, !.message = "Launching..."]

\* The status RequestLaunch writes into the entry of the game.
LaunchingStatus(status) ==
    [status EXCEPT !.current_state = "Launching", !.progress_percent = 0,
                   !.message = "Launching..."]

\* RequestLaunch up to the call of NotifyListeners: LaunchGame of the game
\* manager, then games_mutex_ and the entry of the game. The mutex stays
\* locked while the update is published.
RequestLaunch_Call(h, game_id) ==
    /\ CanCall(h)
    /\ hubCalls' = hubCalls + 1
    /\ LET call == Call("RequestLaunch", nullptr, game_id) IN
       \E launch_ok \in BOOLEAN :
         IF ~launch_ok
           THEN /\ hub' = [hub EXCEPT ![h] = Leave(call, "returned", "rejected")]
                /\ UNCHANGED <<current_game_statuses_, games_mutex_>>
           ELSE /\ games_mutex_ = NoThread
                /\ IF current_game_statuses_[game_id] = NoStatus
                     THEN /\ hub' = [hub EXCEPT ![h] = Leave(call, "returned", "OK")]
                          /\ UNCHANGED <<current_game_statuses_, games_mutex_>>
                     ELSE LET update == LaunchingStatus(current_game_statuses_[game_id])
                          IN /\ current_game_statuses_' =
                                   [current_game_statuses_ EXCEPT ![game_id] = update]
                             /\ games_mutex_' = h
                             /\ hub' = [hub EXCEPT ![h] =
                                   [call EXCEPT !.pc = "publish",
                                                !.updates = <<update>>]]
    /\ UNCHANGED <<listeners_, listeners_mutex_, monitor_pc>>
    /\ UNCHANGED active_game_tasks_
    /\ UNCHANGED coreVars
    /\ UNCHANGED accountVars

\* NotifyListeners: listeners_mutex_ is locked; with no listener the call of
\* RequestLaunch returns.
NotifyListeners_Lock(h) ==
    /\ hub[h].pc = "publish"
    /\ listeners_mutex_ = NoThread
    /\ IF listeners_ = <<>>
         THEN /\ hub' = [hub EXCEPT ![h] = Leave(@, "returned", "OK")]
              /\ games_mutex_' = Unlock(games_mutex_, h)
              /\ UNCHANGED listeners_mutex_
         ELSE /\ hub' = [hub EXCEPT ![h].pc = "fanout", ![h].targets = listeners_]
              /\ listeners_mutex_' = h
              /\ UNCHANGED games_mutex_
    /\ UNCHANGED <<listeners_, current_game_statuses_, hubCalls, monitor_pc>>
    /\ UNCHANGED active_game_tasks_
    /\ UNCHANGED coreVars
    /\ UNCHANGED accountVars

\* Variant of NextListener that walks the vector from its end.
NextListener_Backwards(calls_made) == listeners_[Len(listeners_) - calls_made]

\* The listener the range-for of NotifyListeners calls after calls_made calls.
NextListener(calls_made) == listeners_[calls_made + 1]

\* NotifyListeners: one iteration of its loop over listeners_ (which holds no
\* null pointer).
NotifyListeners_Callback(h) ==
    /\ hub[h].pc = "fanout"
    /\ LET calls_made == Len(hub[h].delivered) IN
       \E outcome \in CallbackOutcomes :
         /\ hub' = [hub EXCEPT ![h] =
                       AfterCallback(@, NextListener(calls_made), hub[h].updates[1],
                                     outcome, calls_made + 1 = Len(listeners_))]
         /\ listeners_mutex_' =
               IF hub'[h].pc \in {"returned", "threw"}
                 THEN Unlock(listeners_mutex_, h) ELSE listeners_mutex_
         /\ games_mutex_' =
               IF hub'[h].pc \in {"returned", "threw"}
                 THEN Unlock(games_mutex_, h) ELSE games_mutex_
    /\ UNCHANGED <<listeners_, current_game_statuses_, hubCalls, monitor_pc>>
    /\ UNCHANGED active_game_tasks_
    /\ UNCHANGED coreVars
    /\ UNCHANGED accountVars

\* RequestInstall returns OK and does nothing else.
RequestInstall(h, game_id) ==
    /\ CanCall(h)
    /\ hubCalls' = hubCalls + 1
    /\ hub' = [hub EXCEPT ![h] =
                  Leave(Call("RequestInstall", nullptr, game_id), "returned", "OK")]
    /\ UNCHANGED <<listeners_, current_game_statuses_, listeners_mutex_,
                   games_mutex_, monitor_pc>>
    /\ UNCHANGED active_game_tasks_
    /\ UNCHANGED coreVars
    /\ UNCHANGED accountVars

\* The status RequestCancel writes into the entry of the game.
IdleStatus(status) ==
    [status EXCEPT !.current_state = "Idle", !.progress_percent = 0,
                   !.message = "Operation Canceled"]

\* RequestCancel. Without an entry in active_game_tasks_ it returns
\* NotFoundError out of the critical section on task_tracking_mutex_. With an
\* entry it erases it, forwards RequestCancellation to the registry, locks
\* games_mutex_, writes Idle into the entry of the game and publishes it with
\* the mutex locked. No code of the program inserts into active_game_tasks_,
\* so the second path is written as one step up to the call of
\* NotifyListeners.
RequestCancel(h, game_id) ==
    /\ CanCall(h)
    /\ hubCalls' = hubCalls + 1
    /\ LET call == Call("RequestCancel", nullptr, game_id)
           task_id_to_cancel == active_game_tasks_[game_id]
       IN IF task_id_to_cancel = kInvalidTaskId
            THEN /\ hub' = [hub EXCEPT ![h] = Leave(call, "returned", "NotFound")]
                 /\ UNCHANGED <<active_game_tasks_, current_game_statuses_,
                                games_mutex_>>
                 /\ UNCHANGED <<cancellation_requested, cancelSeenActive>>
            ELSE /\ active_game_tasks_' =
                       [active_game_tasks_ EXCEPT ![game_id] = kInvalidTaskId]
                 /\ Free(tasks_mutex_)
                 /\ RequestCancellationBody(task_id_to_cancel)
                 /\ Free(games_mutex_)
                 /\ IF current_game_statuses_[game_id] = NoStatus
                      THEN /\ hub' = [hub EXCEPT ![h] = Leave(call, "returned", "OK")]
                           /\ UNCHANGED <<current_game_statuses_, games_mutex_>>
                      ELSE LET update == IdleStatus(current_game_statuses_[game_id])
                           IN /\ current_game_statuses_' =
                                    [current_game_statuses_ EXCEPT ![game_id] = update]
                              /\ games_mutex_' = h
                              /\ hub' = [hub EXCEPT ![h] =
                                    [call EXCEPT !.pc = "publish",
                                                 !.updates = <<update>>]]
    /\ UNCHANGED <<listeners_, listeners_mutex_, monitor_pc>>
    /\ UNCHANGED lockVars
    /\ UNCHANGED accountVars
    /\ UNCHANGED <<next_task_id_, tasks_, info, current_progress,
                   current_description, reported, wpc, work, origin, reqpc, reqResult,
                   active_operations_, cancelling, cancelCalls, cancelReqs,
                   local_manifest, observed, active_tasks, scans, lastCancelResult>>

\* MonitorTasksLoop: the wait on monitor_cv_ times out and monitor_mutex_ is
\* unlocked.
MonitorTasksLoop_Wake ==
    /\ monitor_pc = "waiting"
    /\ monitor_pc' = "checking"
    /\ UNCHANGED <<listeners_, current_game_statuses_, listeners_mutex_,
                   games_mutex_, hub, hubCalls>>
    /\ UNCHANGED active_game_tasks_
    /\ UNCHANGED coreVars
    /\ UNCHANGED accountVars

\* MonitorTasksLoop: "Checking task statuses..." is logged and monitor_mutex_
\* is locked again; neither the registry nor the statuses are touched.
MonitorTasksLoop_Check ==
    /\ monitor_pc = "checking"
    /\ monitor_pc' = "waiting"
    /\ UNCHANGED <<listeners_, current_game_statuses_, listeners_mutex_,
                   games_mutex_, hub, hubCalls>>
    /\ UNCHANGED active_game_tasks_
    /\ UNCHANGED coreVars
    /\ UNCHANGED accountVars

\* ----------------------------------------------------------- specifications

\* The worker threads of the registry.
WorkerStep ==
    \/ \E t \in TaskIds : Wrapper_Start(t)
    \/ \E t \in TaskIds : Wrapper_Final(t)

\* The game management service on top of the registry: concurrent install,
\* update, verify and cancel requests and the closures they start.
Next ==
    \/ \E g \in Titles : InstallGame_Start(g)
    \/ \E g \in Titles : UpdateGame_Start(g)
    \/ \E g \in Titles : VerifyGame_Start(g)
    \/ \E t \in TaskIds : StartTask_Store(t)
    \/ \E t \in TaskIds : Operation_Register(t)
    \/ \E t \in TaskIds : Operation_Reject(t)
    \/ \E g \in Titles : CancelOperation_Erase(g)
    \/ \E t \in TaskIds : CancelOperation_Forward(t)
    \/ WorkerStep
    \/ \E t \in TaskIds : Pipeline_Manifest(t)
    \/ \E t \in TaskIds : Pipeline_Parse(t)
    \/ \E t \in TaskIds : Pipeline_Validate(t)
    \/ \E t \in TaskIds : Pipeline_File(t)
    \/ \E t \in TaskIds : Pipeline_Save(t)
    \/ \E t \in TaskIds : Pipeline_Complete(t)
    \/ \E t \in TaskIds : Verify_Load(t)
    \/ \E t \in TaskIds : Verify_File(t)
    \/ \E t \in TaskIds : Verify_Done(t)
    \/ \E t \in TaskIds : Closure_Cleanup(t)

Spec == Init /\ [][Next]_vars

\* The registry alone, driven by callers that start arbitrary work functions,
\* poll GetTaskInfo and request cancellation.
NextRegistry ==
    \/ (next_task_id_ <= MaxRegistryTasks /\ StartTask_Generic)
    \/ \E t \in TaskIds : StartTask_Store(t)
    \/ WorkerStep
    \/ \E t \in TaskIds : Generic_Report(t)
    \/ \E t \in TaskIds : Generic_Return(t)
    \/ \E t \in TaskIds : Generic_Throw(t)
    \/ \E t \in TaskIds : GetTaskInfo(t)
    \/ GetActiveTasks
    \/ \E t \in TaskIds : RequestCancellation(t)

InitRegistry == Init /\ local_manifest = [g \in Titles |-> <<>>]

SpecRegistry == InitRegistry /\ [][NextRegistry]_vars

\* Concurrent StartTask calls of the registry's callers, with the workers
\* they spawn.
NextStartTask ==
    \/ StartTask_Generic
    \/ \E t \in TaskIds : StartTask_Store(t)
    \/ WorkerStep
    \/ \E t \in TaskIds : Generic_Return(t)
    \/ \E t \in TaskIds : Generic_Throw(t)

SpecStartTask == InitRegistry /\ [][NextStartTask]_vars

\* CoreIPCService alone: the threads of the IPC layer subscribe and
\* unsubscribe listeners and request launches and installs, the listeners
\* return, throw or block, and the monitor thread runs.
NextHub ==
    \/ \E h \in HubThreads, l \in Listeners \cup {nullptr} : AddStatusListener_Call(h, l)
    \/ \E h \in HubThreads : AddStatusListener_Snapshot(h)
    \/ \E h \in HubThreads : NotifyListener_Callback(h)
    \/ \E h \in HubThreads, l \in Listeners \cup {nullptr} : RemoveStatusListener(h, l)
    \/ \E h \in HubThreads, g \in Catalog : RequestLaunch_Call(h, g)
    \/ \E h \in HubThreads : NotifyListeners_Lock(h)
    \/ \E h \in HubThreads : NotifyListeners_Callback(h)
    \/ \E h \in HubThreads, g \in Catalog : RequestInstall(h, g)
    \/ MonitorTasksLoop_Wake
    \/ MonitorTasksLoop_Check

\* GetInstalledGames may have reported any part of the catalog.
InitHub ==
    /\ InitCore
    /\ NoAccount
    /\ local_manifest = [g \in Titles |-> <<>>]
    /\ \E installed_games \in SUBSET Catalog : CoreIPCService(installed_games)

SpecHub == InitHub /\ [][NextHub]_vars

\* The steps of the thread that called InstallGame / UpdateGame and of the
\* worker of the task, through the closure to the final status.
OperationStep ==
    \/ \E t \in TaskIds : StartTask_Store(t)
    \/ \E t \in TaskIds : Operation_Register(t)
    \/ WorkerStep
    \/ \E t \in TaskIds : Pipeline_Manifest(t)
    \/ \E t \in TaskIds : Pipeline_Parse(t)
    \/ \E t \in TaskIds : Pipeline_Validate(t)
    \/ \E t \in TaskIds : Pipeline_File(t)
    \/ \E t \in TaskIds : Pipeline_Save(t)
    \/ \E t \in TaskIds : Pipeline_Complete(t)
    \/ \E t \in TaskIds : Closure_Cleanup(t)

MonitorStep == MonitorTasksLoop_Wake \/ MonitorTasksLoop_Check

\* Installs and updates next to a running CoreIPCService: the IPC layer
\* requests installs, the game management service runs install and update
\* operations, and the monitor thread wakes up again and again.
NextMonitor ==
    \/ \E h \in HubThreads, g \in Catalog : RequestInstall(h, g)
    \/ \E g \in Titles : (next_task_id_ <= MaxRegistryTasks /\ InstallGame_Start(g))
    \/ \E g \in Titles : (next_task_id_ <= MaxRegistryTasks /\ UpdateGame_Start(g))
    \/ OperationStep
    \/ MonitorStep

\* Threads that can run do run: the operation's threads until the task is
\* over, the monitor thread for ever (its wait times out every 5 seconds).
SpecMonitor ==
    /\ InitHub
    /\ [][NextMonitor]_vars
    /\ WF_vars(OperationStep)
    /\ WF_vars(MonitorStep)

\* Cancellation next to running operations: concurrent VerifyGame and
\* CancelOperation calls for the titles, with the closures the former start,
\* and RequestCancel calls of the IPC layer for the same titles.
NextCancel ==
    \/ \E g \in Titles : VerifyGame_Start(g)
    \/ \E t \in TaskIds : StartTask_Store(t)
    \/ \E t \in TaskIds : Operation_Register(t)
    \/ \E t \in TaskIds : Operation_Reject(t)
    \/ \E g \in Titles : CancelOperation_Erase(g)
    \/ \E t \in TaskIds : CancelOperation_Forward(t)
    \/ WorkerStep
    \/ \E t \in TaskIds : Verify_Load(t)
    \/ \E t \in TaskIds : Verify_File(t)
    \/ \E t \in TaskIds : Verify_Done(t)
    \/ \E t \in TaskIds : Closure_Cleanup(t)
    \/ \E h \in HubThreads, g \in Titles :
          (hubCalls < MaxHubCancels /\ RequestCancel(h, g))

SpecCancel == Init /\ [][NextCancel]_vars

\* -------------------------------------------- BasicAuthenticationManager
\* IUserSettings::GetString: the value stored under the key, or NullOpt for
\* the NotFound status.
GetString(key) == user_settings_[key]

\* The settings after the four SetString calls of one handler, which write
\* values[key] under each key of AuthKeys in turn; ok[key] says whether the
\* call for the key returned OK, and a call that fails stores nothing. The
\* handlers ignore the status.
SetStrings(values, ok) ==
    [key \in AuthKeySet |-> IF ok[key] THEN Some(values[key]) ELSE user_settings_[key]]

\* The values Logout and LoadSession write to clear the stored session.
ClearedValues == [key \in AuthKeySet |-> ""]

\* The values a successful Login writes.
SessionValues(profile) ==
    [key \in AuthKeySet |->
        CASE key = "auth.session_token" -> kValidToken
          [] key = "auth.user_id" -> profile.user_id
          [] key = "auth.username" -> profile.username
          [] OTHER -> profile.email]

AllOk(ok) == \A key \in AuthKeySet : ok[key]

\* Variant of LoadSession that restores the session as soon as the token is
\* the valid one.
LoadSession_TokenOnly ==
    LET token == GetString("auth.session_token") IN
      IF token = Some(kValidToken)
        THEN [status |-> "kLoggedIn",
              profile |-> Some(UserProfile("", "", "")),
              clears |-> FALSE]
        ELSE [status |-> "kLoggedOut", profile |-> NullOpt,
              clears |-> token # NullOpt /\ token # Some("")]

\* LoadSession: the status and the profile it leaves, and whether it clears
\* the stored session.
LoadSession ==
    LET token == GetString("auth.session_token")
        user_id == GetString("auth.user_id")
        username == GetString("auth.username")
        email == GetString("auth.email")
    IN IF token # NullOpt /\ token[1] = kValidToken
         THEN IF user_id # NullOpt /\ username # NullOpt /\ email # NullOpt
                THEN [status |-> "kLoggedIn",
                      profile |-> Some(UserProfile(user_id[1], username[1], email[1])),
                      clears |-> FALSE]
                ELSE [status |-> "kLoggedOut", profile |-> NullOpt, clears |-> FALSE]
         ELSE IF token # NullOpt /\ token[1] # ""
                THEN [status |-> "kLoggedOut", profile |-> NullOpt, clears |-> TRUE]
                ELSE [status |-> "kLoggedOut", profile |-> NullOpt, clears |-> FALSE]

\* CreateAuthenticationManager on the settings: the constructor of a new
\* BasicAuthenticationManager, which runs LoadSession. An earlier manager on
\* the same settings is gone.
CreateAuthenticationManager ==
    /\ auth_manager_' = TRUE
    /\ LET session == LoadSession IN
         /\ current_status_' = session.status
         /\ current_profile_' = session.profile
         /\ IF session.clears
              THEN \E ok \in [AuthKeySet -> BOOLEAN] :
                     /\ user_settings_' = SetStrings(ClearedValues, ok)
                     /\ authCall' = [NoAuthCall EXCEPT
                            !.op = "Create", !.result = "OK", !.written = AuthKeys,
                            !.writes_ok = authCall.writes_ok /\ AllOk(ok)]
              ELSE /\ UNCHANGED user_settings_
                   /\ authCall' = [NoAuthCall EXCEPT
                          !.op = "Create", !.result = "OK",
                          !.writes_ok = authCall.writes_ok]
    /\ UNCHANGED coreVars
    /\ UNCHANGED hubVars
    /\ UNCHANGED settingsVars

\* Variant of LoginStatus that accepts the password with any username.
LoginStatus_PasswordOnly(username, password) ==
    IF username = "" \/ password = "" THEN "InvalidArgument"
    ELSE IF password = kTestPassword THEN "OK"
    ELSE "Unauthenticated"

\* Variant of LoginStatus that tests the credentials before their emptiness.
LoginStatus_EmptyIsWrong(username, password) ==
    IF username = kTestUser /\ password = kTestPassword THEN "OK"
    ELSE "Unauthenticated"

\* The status Login returns.
LoginStatus(username, password) ==
    IF username = "" \/ password = "" THEN "InvalidArgument"
    ELSE IF username = kTestUser /\ password = kTestPassword THEN "OK"
    ELSE "Unauthenticated"

\* Variant of RejectedLogin that resets the profile only.
RejectedLogin_KeepsStatus ==
    [status |-> current_status_, profile |-> NullOpt]

\* The members after the else branch of Login.
RejectedLogin == [status |-> "kLoggedOut", profile |-> NullOpt]

Login(username, password) ==
    /\ auth_manager_
    /\ LET result == LoginStatus(username, password)
           call == [NoAuthCall EXCEPT !.op = "Login", !.username = username,
                                      !.password = password, !.result = result,
                                      !.writes_ok = authCall.writes_ok]
       IN CASE result = "InvalidArgument" ->
                 /\ authCall' = call
                 /\ UNCHANGED <<current_status_, current_profile_, user_settings_>>
            [] result = "OK" ->
                 LET profile == UserProfile("user123", username, "testuser@example.com") IN
                   /\ current_status_' = "kLoggedIn"
                   /\ current_profile_' = Some(profile)
                   /\ \E ok \in [AuthKeySet -> BOOLEAN] :
                        /\ user_settings_' = SetStrings(SessionValues(profile), ok)
                        /\ authCall' = [call EXCEPT
                               !.written = AuthKeys,
                               !.writes_ok = authCall.writes_ok /\ AllOk(ok)]
            [] OTHER ->
                 /\ current_status_' = RejectedLogin.status
                 /\ current_profile_' = RejectedLogin.profile
                 /\ authCall' = call
                 /\ UNCHANGED user_settings_
    /\ UNCHANGED auth_manager_
    /\ UNCHANGED coreVars
    /\ UNCHANGED hubVars
    /\ UNCHANGED settingsVars

Logout ==
    /\ auth_manager_
    /\ current_status_' = "kLoggedOut"
    /\ current_profile_' = NullOpt
    /\ \E ok \in [AuthKeySet -> BOOLEAN] :
         /\ user_settings_' = SetStrings(ClearedValues, ok)
         /\ authCall' = [NoAuthCall EXCEPT
                !.op = "Logout", !.result = "OK", !.written = AuthKeys,
                !.writes_ok = authCall.writes_ok /\ AllOk(ok)]
    /\ UNCHANGED auth_manager_
    /\ UNCHANGED coreVars
    /\ UNCHANGED hubVars
    /\ UNCHANGED settingsVars

GetAuthStatus == current_status_

\* GetCurrentUserProfile: the profile, or NullOpt for the NotFound status.
GetCurrentUserProfile ==
    IF current_status_ = "kLoggedIn" /\ current_profile_ # NullOpt
      THEN current_profile_ ELSE NullOpt

\* The settings hold what an earlier run of the launcher left, and no
\* manager exists yet.
InitAuth ==
    /\ InitCore
    /\ local_manifest = [g \in Titles |-> <<>>]
    /\ CoreIPCService(Catalog)
    /\ NoSettings
    /\ user_settings_ \in {f \in [AuthKeySet -> UNION {StoredValues(k) : k \in AuthKeySet}] :
                              \A k \in AuthKeySet : f[k] \in StoredValues(k)}
    /\ auth_manager_ = FALSE
    /\ current_status_ = "kLoggedOut"
    /\ current_profile_ = NullOpt
    /\ authCall = NoAuthCall

NextAuth ==
    \/ CreateAuthenticationManager
    \/ \E username \in Usernames, password \in Passwords : Login(username, password)
    \/ Logout

SpecAuth == InitAuth /\ [][NextAuth]_vars

\* ------------------------------------------------------------ JsonUserSettings
\* FileError: the status code chosen from the name of the failed operation.
FileError(operation) ==
    IF operation \in {"open", "read"} THEN "Unavailable"
    ELSE IF operation \in {"write", "create directory for"} THEN "Internal"
    ELSE IF operation \in {"parse", "deserialize"} THEN "DataLoss"
    ELSE "Unknown"

\* ReadJsonFromFile: the status, or "OK" with the document that was read.
ReadJsonFromFile ==
    IF settings_file = "absent" THEN "NotFound"
    ELSE IF settings_file = "unreadable" THEN FileError("open")
    ELSE IF settings_file = "malformed" THEN FileError("parse")
    ELSE "OK"

\* What a write attempt can do: succeed, or fail at one of its steps.
WriteOutcomes == {"ok", "create directory for", "open for writing", "write"}

\* WriteJsonToFile: the returned status and the file it leaves. A failure
\* before the stream is open leaves the file as it was; a failure of the
\* stream leaves a truncated or partial document.
WriteJsonToFile(json_data, outcome) ==
    IF outcome = "ok" THEN [status |-> "OK", file |-> json_data]
    ELSE IF outcome = "write" THEN [status |-> FileError(outcome), file |-> "malformed"]
    ELSE [status |-> FileError(outcome), file |-> settings_file]

\* LoadSettings: the returned status, and the members it assigns.
LoadSettings ==
    IF ReadJsonFromFile = "NotFound"
        THEN [status |-> "OK", settings |-> "default", dirty |-> TRUE]
    ELSE IF ReadJsonFromFile # "OK"
        THEN [status |-> ReadJsonFromFile, settings |-> "default", dirty |-> TRUE]
    ELSE IF settings_file \in AppSettingsValues
        THEN [status |-> "OK", settings |-> settings_file, dirty |-> FALSE]
    ELSE [status |-> FileError("deserialize"), settings |-> "default", dirty |-> TRUE]

\* SaveSettings: the returned status, the file and the dirty flag it leaves.
SaveSettings(dirty, settings, outcome) ==
    IF ~dirty THEN [status |-> "OK", file |-> settings_file, dirty |-> FALSE]
    ELSE LET write_status == WriteJsonToFile(settings, outcome)
         IN  [status |-> write_status.status, file |-> write_status.file,
              dirty |-> write_status.status # "OK"]

\* The constructor: clean default settings, then an eager LoadSettings; a
\* failed load other than NotFound marks the settings dirty.
JsonUserSettings ==
    /\ ~json_settings_
    /\ json_settings_' = TRUE
    /\ current_settings_' = LoadSettings.settings
    /\ settings_dirty_' = (LoadSettings.dirty \/ LoadSettings.status \notin {"OK", "NotFound"})
    /\ settingsCall' = [op |-> "JsonUserSettings", result |-> LoadSettings.status]
    /\ UNCHANGED settings_file
    /\ UNCHANGED coreVars
    /\ UNCHANGED hubVars
    /\ UNCHANGED authVars

LoadSettings_Call ==
    /\ json_settings_
    /\ current_settings_' = LoadSettings.settings
    /\ settings_dirty_' = LoadSettings.dirty
    /\ settingsCall' = [op |-> "LoadSettings", result |-> LoadSettings.status]
    /\ UNCHANGED <<settings_file, json_settings_>>
    /\ UNCHANGED coreVars
    /\ UNCHANGED hubVars
    /\ UNCHANGED authVars

SaveSettings_Call ==
    /\ json_settings_
    /\ \E outcome \in WriteOutcomes :
         LET saved == SaveSettings(settings_dirty_, current_settings_, outcome)
         IN  /\ settings_file' = saved.file
             /\ settings_dirty_' = saved.dirty
             /\ settingsCall' = [op |-> "SaveSettings", result |-> saved.status]
    /\ UNCHANGED <<json_settings_, current_settings_>>
    /\ UNCHANGED coreVars
    /\ UNCHANGED hubVars
    /\ UNCHANGED authVars

GetAppSettings == current_settings_

SetAppSettings(settings) ==
    /\ json_settings_
    /\ current_settings_' = settings
    /\ settings_dirty_' = TRUE
    /\ settingsCall' = [op |-> "SetAppSettings", result |-> "OK"]
    /\ UNCHANGED <<settings_file, json_settings_>>
    /\ UNCHANGED coreVars
    /\ UNCHANGED hubVars
    /\ UNCHANGED authVars

\* The destructor: saves if dirty; the status of the save is only logged.
\* Without an object the members are held at their construction values.
JsonUserSettings_Destroy ==
    /\ json_settings_
    /\ \E outcome \in WriteOutcomes :
         LET saved == SaveSettings(settings_dirty_, current_settings_, outcome)
         IN  /\ settings_file' = saved.file
             /\ settingsCall' = [op |-> "~JsonUserSettings", result |-> saved.status]
    /\ json_settings_' = FALSE
    /\ current_settings_' = "default"
    /\ settings_dirty_' = FALSE
    /\ UNCHANGED coreVars
    /\ UNCHANGED hubVars
    /\ UNCHANGED authVars

\* The file is what an earlier run, or the user, left at the path; no
\* object exists yet.
InitSettings ==
    /\ InitCore
    /\ local_manifest = [g \in Titles |-> <<>>]
    /\ CoreIPCService(Catalog)
    /\ NoAuth
    /\ settings_file \in SettingsFiles
    /\ json_settings_ = FALSE
    /\ current_settings_ = "default"
    /\ settings_dirty_ = FALSE
    /\ settingsCall = NoSettingsCall

NextSettings ==
    \/ JsonUserSettings
    \/ LoadSettings_Call
    \/ SaveSettings_Call
    \/ \E settings \in AppSettingsValues : SetAppSettings(settings)
    \/ JsonUserSettings_Destroy

SpecSettings == InitSettings /\ [][NextSettings]_vars

\* Every request made so far has returned and its task is over.
Quiet ==
    \A t \in TaskIds : wpc[t] \in {"unborn", "done"} /\ reqpc[t] \in {"none", "returned"}

\* One client that installs, updates and verifies a title, making a request
\* when the one before has returned and its task is over, and that may ask
\* for cancellation at any time.
NextSequential ==
    \/ \E g \in Titles : (Quiet /\ InstallGame_Start(g))
    \/ \E g \in Titles : (Quiet /\ UpdateGame_Start(g))
    \/ \E g \in Titles : (Quiet /\ VerifyGame_Start(g))
    \/ \E t \in TaskIds : StartTask_Store(t)
    \/ \E t \in TaskIds : Operation_Register(t)
    \/ \E t \in TaskIds : Operation_Reject(t)
    \/ \E g \in Titles : CancelOperation_Erase(g)
    \/ \E t \in TaskIds : CancelOperation_Forward(t)
    \/ WorkerStep
    \/ \E t \in TaskIds : Pipeline_Manifest(t)
    \/ \E t \in TaskIds : Pipeline_Parse(t)
    \/ \E t \in TaskIds : Pipeline_Validate(t)
    \/ \E t \in TaskIds : Pipeline_File(t)
    \/ \E t \in TaskIds : Pipeline_Save(t)
    \/ \E t \in TaskIds : Pipeline_Complete(t)
    \/ \E t \in TaskIds : Verify_Load(t)
    \/ \E t \in TaskIds : Verify_File(t)
    \/ \E t \in TaskIds : Verify_Done(t)
    \/ \E t \in TaskIds : Closure_Cleanup(t)

SpecSequential == Init /\ [][NextSequential]_vars

\* The save step of an install whose file loop has completed, taken alone:
\* SaveLocalManifest is applied to a document that passes the validation of
\* the install pipeline.
SaveLocalManifest_Call(game_id, manifest_data) ==
    /\ Quiet
    /\ ManifestValid(manifest_data)
    /\ SaveLocalManifest(game_id, manifest_data)
    /\ UNCHANGED hubVars
    /\ UNCHANGED accountVars
    /\ UNCHANGED lockVars
    /\ UNCHANGED <<next_task_id_, tasks_, info, current_progress,
                   current_description, reported, cancellation_requested, wpc, work,
                   origin, reqpc, reqResult, active_operations_, cancelling,
                   cancelCalls, cancelReqs, observed, active_tasks, scans,
                   cancelSeenActive, lastCancelResult>>

\* SaveLocalManifest on the documents the install pipeline accepts, and the
\* verify operations that load what it wrote.
NextRoundTrip ==
    \/ \E g \in Titles, m \in Manifests : SaveLocalManifest_Call(g, m)
    \/ \E g \in Titles : (Quiet /\ VerifyGame_Start(g))
    \/ \E t \in TaskIds : StartTask_Store(t)
    \/ \E t \in TaskIds : Operation_Register(t)
    \/ \E t \in TaskIds : Operation_Reject(t)
    \/ WorkerStep
    \/ \E t \in TaskIds : Verify_Load(t)
    \/ \E t \in TaskIds : Verify_File(t)
    \/ \E t \in TaskIds : Verify_Done(t)
    \/ \E t \in TaskIds : Closure_Cleanup(t)

SpecRoundTrip == Init /\ [][NextRoundTrip]_vars

\* The install and update closures with the file loop taken alone: one
\* request at a time, every manifest size and every point of failure.
NextFileLoop ==
    \/ \E g \in Titles : (Quiet /\ InstallGame_Start(g))
    \/ \E g \in Titles : (Quiet /\ UpdateGame_Start(g))
    \/ \E t \in TaskIds : StartTask_Store(t)
    \/ \E t \in TaskIds : Operation_Register(t)
    \/ \E t \in TaskIds : Operation_Reject(t)
    \/ WorkerStep
    \/ \E t \in TaskIds : Pipeline_Manifest(t)
    \/ \E t \in TaskIds : Pipeline_Parse(t)
    \/ \E t \in TaskIds : Pipeline_Validate(t)
    \/ \E t \in TaskIds : FileLoop_Iteration(t)
    \/ \E t \in TaskIds : Pipeline_Save(t)
    \/ \E t \in TaskIds : Pipeline_Complete(t)
    \/ \E t \in TaskIds : Closure_Cleanup(t)

SpecFileLoop == Init /\ [][NextFileLoop]_vars

\* ------------------------------------------------------------------ claims

StatusRank(status) ==
    CASE status = "kPending" -> 0
      [] status \in {"kRunning", "kPaused"} -> 1
      [] OTHER -> 2

Finished(t) == wpc[t] = "done"

\* C1: the statuses successive GetTaskInfo calls return for a task only move
\* forward along Pending -> Running -> terminal, and a terminal status that
\* was returned is returned by every later call.
C1_ObservedStatusMonotonic ==
    [][\A t \in TaskIds :
          observed[t] # <<>> =>
             /\ observed'[t] # <<>>
             /\ StatusRank(observed[t][1]) <= StatusRank(observed'[t][1])
             /\ observed[t][1] \in TerminalStatus
                   => observed'[t][1] = observed[t][1]]_vars

\* A task first seen Running is seen in a terminal status by a later call.
C1_Witness ==
    \E t \in TaskIds :
        /\ observed[t] = <<"kRunning">>
        /\ t \in tasks_
        /\ TaskInfoCopy(t).status \in TerminalStatus

\* An install, update or verify closure is executing (its cleanup included).
ClosureExecuting(t) == origin[t].kind \in {"install", "update", "verify"} /\ wpc[t] = "work"

\* C2: at most one install/update/verify closure of a title executes at any
\* instant.
C2_OneClosurePerTitle ==
    \A g \in Titles :
        Cardinality({t \in TaskIds : origin[t].title = g /\ ClosureExecuting(t)}) <= 1

\* C3: a request rejected as already in progress has created no task in the
\* registry and has run no pipeline step.
C3_RejectedRequestStartsNothing ==
    \A t \in TaskIds :
        reqResult[t] = "AlreadyExists" =>
            /\ t \notin tasks_
            /\ wpc[t] = "unborn"
            /\ current_progress[t] = 0

\* The pipeline of an accepted operation is still in its try block.
OperationRunning(t) == reqResult[t] = "OK" /\ wpc[t] = "work" /\ work[t].pc # "cleanup"

\* C4: while an accepted operation of a title is still running (and nobody
\* has asked to cancel), no other request for that title is accepted.
C4_OneAcceptedWhileRunning ==
    [][\A t \in TaskIds :
          (cancelCalls = 0 /\ reqResult[t] # "OK" /\ reqResult'[t] = "OK") =>
              ~ \E u \in TaskIds \ {t} :
                    origin[u].title = origin[t].title /\ OperationRunning(u)]_vars

\* C5: once the task of an accepted operation is terminal and the call that
\* started it has returned, the guard does not hold that task's entry.
C5_GuardReleasedAfterTerminal ==
    \A t \in TaskIds :
        (reqpc[t] = "returned" /\ Finished(t) /\ info[t].status \in TerminalStatus)
            => active_operations_[origin[t].title] # t

\* C6: the copy GetTaskInfo returns for a task that succeeded has progress 100.
C6_SucceededReportsHundred ==
    \A t \in tasks_ :
        TaskInfoCopy(t).status = "kSucceeded"
            => TaskInfoCopy(t).progress_percentage = Percent(100)

\* C7 as stated: a task whose work threw ends Failed with a non-empty error
\* message.
C7_ThrowEndsFailed ==
    \A t \in TaskIds :
        (Finished(t) /\ work[t].threw) =>
            /\ info[t].status = "kFailed"
            /\ info[t].error_message # NullOpt
            /\ info[t].error_message[1] # ""

\* C7 amended: a task whose work threw ends Failed with a non-empty error
\* message, unless a cancellation request found it Pending or Running before
\* its final status was written; it then ends Cancelled with no error message.
C7_ThrowEndsFailedUnlessCancelled ==
    \A t \in TaskIds :
        (Finished(t) /\ work[t].threw) =>
            IF cancelSeenActive[t]
              THEN info[t].status = "kCancelled" /\ info[t].error_message = NullOpt
              ELSE /\ info[t].status = "kFailed"
                   /\ info[t].error_message # NullOpt
                   /\ info[t].error_message[1] # ""

\* A work function threw an exception whose what() is empty and the task is
\* Failed.
C7_Witness ==
    \E t \in TaskIds :
        /\ Finished(t) /\ work[t].threw /\ work[t].err = ""
        /\ info[t].status = "kFailed"

\* C8: a task that a cancellation request found Pending or Running is
\* Cancelled once its work has finished, whatever the work returned.
C8_CancelledAfterRequest ==
    \A t \in TaskIds :
        (cancelSeenActive[t] /\ Finished(t)) => info[t].status = "kCancelled"

\* The work returned true after the request and the task is Cancelled.
C8_Witness ==
    \E t \in TaskIds :
        /\ cancelSeenActive[t] /\ Finished(t)
        /\ work[t].success
        /\ info[t].status = "kCancelled"

\* C9: a RequestCancellation call changes no task's status, progress or
\* description and moves no worker; and a task whose work is still executing
\* is Running, cancellation requested or not.
C9_CancellationOnlySetsFlag ==
    /\ [][(cancelReqs' # cancelReqs \/ cancellation_requested' # cancellation_requested)
            => UNCHANGED <<info, current_progress, current_description, wpc, work,
                           tasks_>>]_vars
    /\ [](\A t \in TaskIds : wpc[t] = "work" => info[t].status = "kRunning")

\* Cancellation was requested and the work is still executing.
C9_Witness ==
    \E t \in TaskIds :
        /\ cancellation_requested[t]
        /\ wpc[t] = "work"
        /\ info[t].status = "kRunning"

\* C10: the copy GetTaskInfo returns for a task holds an error message
\* exactly when its status is Failed, and the message is not empty.
C10_ErrorIffFailed ==
    \A t \in tasks_ :
        /\ (TaskInfoCopy(t).error_message # NullOpt)
               <=> (TaskInfoCopy(t).status = "kFailed")
        /\ TaskInfoCopy(t).error_message # NullOpt
               => TaskInfoCopy(t).error_message[1] # ""

\* A Failed task whose work returned false, with the default message.
C10_Witness ==
    \E t \in tasks_ :
        /\ TaskInfoCopy(t).status = "kFailed"
        /\ ~work[t].threw
        /\ TaskInfoCopy(t).error_message = Some("Task failed")

\* C11: a GetActiveTasks call returns exactly the stored tasks whose status
\* is Pending, Running or Paused when it is made: none of them is left out
\* and no task with a terminal status is returned.
C11_ActiveTasksExact ==
    [][scans' # scans =>
          active_tasks' = <<{t \in tasks_ :
                               info[t].status \in TaskStatus \ TerminalStatus}>>]_vars

\* A call returned a task that is running.
C11_Witness ==
    \E t \in tasks_ : active_tasks = <<{t}>> /\ info[t].status = "kRunning"

\* A call made with a finished task in the registry returned nothing.
C11_WitnessTerminal ==
    \E t \in tasks_ : active_tasks = <<{}>> /\ info[t].status \in TerminalStatus

\* StartTask has handed out the id.
Allocated(t) == wpc[t] # "unborn"

\* C12: the id a StartTask call takes is not kInvalidTaskId, was handed out
\* by no earlier call and is greater than every id handed out before, also
\* while other StartTask calls are still between taking their id and
\* storing their task.
C12_TaskIdsIncrease ==
    [][\A t \in TaskIds :
          (reqpc[t] # "insert" /\ reqpc'[t] = "insert") =>
              /\ t # kInvalidTaskId
              /\ ~Allocated(t)
              /\ \A u \in TaskIds : Allocated(u) => u < t]_vars

\* Two StartTask calls have taken their ids and neither has stored its task.
C12_Witness ==
    \E t, u \in TaskIds :
        /\ t < u
        /\ reqpc[t] = "insert" /\ reqpc[u] = "insert"
        /\ t \notin tasks_ /\ u \notin tasks_

\* C13: the description GetTaskInfo returns for a task is the one last
\* handed to its ProgressReporter, or the initial description of StartTask
\* while the work has reported nothing; this also holds once the task is
\* terminal, for the copy and for the description the wrapper stored.
C13_DescriptionIsLastReported ==
    \A t \in tasks_ :
        /\ TaskInfoCopy(t).description = reported[t]
        /\ (Finished(t) /\ info[t].status \in TerminalStatus)
              => info[t].description = reported[t]

\* A terminal task whose work reported a description of its own.
C13_Witness ==
    \E t \in tasks_ :
        /\ Finished(t) /\ info[t].status \in TerminalStatus
        /\ reported[t] # GenericInitial
        /\ TaskInfoCopy(t).description = reported[t]

\* ---- CoreIPCService
\* The games current_game_statuses_ has an entry for.
KnownGames == {g \in Catalog : current_game_statuses_[g] # NoStatus}

\* The listeners called, and the updates handed over, in a call's deliveries.
CalledListeners(call) == [i \in 1..Len(call.delivered) |-> call.delivered[i][1]]
DeliveredUpdates(call) == [i \in 1..Len(call.delivered) |-> call.delivered[i][2]]
NoRepeats(seq) == \A i, j \in 1..Len(seq) : seq[i] = seq[j] => i = j

\* Thread h enters a call in this step.
Enters(h) == hub'[h].n # hub[h].n
\* Thread h calls OnGameStatusUpdate of listener l in this step.
Delivers(h, l) ==
    /\ hub'[h].n = hub[h].n
    /\ Len(hub'[h].delivered) = Len(hub[h].delivered) + 1
    /\ hub'[h].delivered[Len(hub'[h].delivered)][1] = l
\* Thread h returns from its call in this step.
Returns(h) == hub'[h].pc = "returned" /\ (Enters(h) \/ hub[h].pc # "returned")

\* C14: when AddStatusListener returns for a listener that was not
\* subscribed, that listener has been handed, inside the call, exactly one
\* update for every game the service has a status for.
C14_SubscribeDeliversSnapshot ==
    \A h \in HubThreads :
        (/\ hub[h].op = "AddStatusListener" /\ hub[h].pc = "returned"
         /\ hub[h].result \in {"OK", "added"}) =>
            /\ \A i \in 1..Len(hub[h].delivered) :
                   CalledListeners(hub[h])[i] = hub[h].listener
            /\ \A g \in KnownGames :
                   Cardinality({i \in 1..Len(hub[h].delivered) :
                                  DeliveredUpdates(hub[h])[i].game_id = g}) = 1
            /\ Len(hub[h].delivered) = Cardinality(KnownGames)

\* A subscription returned after delivering the statuses of two games.
C14_Witness ==
    \E h \in HubThreads :
        /\ hub[h].op = "AddStatusListener" /\ hub[h].pc = "returned"
        /\ Len(hub[h].delivered) = 2
        /\ Cardinality(KnownGames) = 2

\* C15: listeners_ never holds a listener twice, so no publication calls a
\* listener twice; and an AddStatusListener call for a listener that is
\* subscribed leaves listeners_ as it is and delivers nothing.
C15_DuplicateSubscribeNoOp ==
    /\ [](NoRepeats(listeners_))
    /\ [](\A h \in HubThreads :
             hub[h].op = "RequestLaunch" => NoRepeats(CalledListeners(hub[h])))
    /\ [][\A h \in HubThreads :
             (/\ Enters(h) /\ hub'[h].op = "AddStatusListener"
              /\ Contains(listeners_, hub'[h].listener)) =>
                 /\ listeners_' = listeners_
                 /\ hub'[h].pc = "returned"
                 /\ hub'[h].delivered = <<>>]_vars

\* A second subscription of a subscribed listener has returned, with another
\* listener subscribed as well.
C15_Witness ==
    \E h \in HubThreads :
        /\ hub[h].op = "AddStatusListener" /\ hub[h].result = "duplicate"
        /\ Len(listeners_) = 2
        /\ Contains(listeners_, hub[h].listener)

\* C16: RemoveStatusListener takes its listener out of listeners_ and leaves
\* the other listeners in their order; for a listener that is not subscribed
\* it changes nothing; and OnGameStatusUpdate is only ever called on a
\* listener that is in listeners_, so not after its removal has returned and
\* before it is added again.
C16_UnsubscribeIdempotent ==
    [][\A h \in HubThreads :
          /\ (/\ Enters(h) /\ hub'[h].op = "RemoveStatusListener"
               /\ hub'[h].listener # nullptr) =>
                  /\ listeners_' =
                        SelectSeq(listeners_, LAMBDA x : x # hub'[h].listener)
                  /\ ~Contains(listeners_, hub'[h].listener)
                        => listeners_' = listeners_
                  /\ hub'[h].pc = "returned"
          /\ \A l \in Listeners : Delivers(h, l) => Contains(listeners_, l)]_vars

\* A removal has returned and left the other listener subscribed.
C16_Witness ==
    \E h \in HubThreads :
        /\ hub[h].op = "RemoveStatusListener" /\ hub[h].result = "removed"
        /\ Len(listeners_) = 1
        /\ ~Contains(listeners_, hub[h].listener)

C18_FaultyListenerIsolated ==
    \A h \in HubThreads :
        (hub[h].op = "RequestLaunch" /\ hub[h].pc \in {"threw", "blocked"}) =>
            /\ \A i \in 1..Len(hub[h].targets) :
                   Contains(CalledListeners(hub[h]), hub[h].targets[i])
            /\ listeners_mutex_ # h

\* C20: a RequestLaunch call that the game manager accepted, for a game with
\* a status, returns with the game's state Launching and with that update
\* handed to every listener; the state of a game only ever changes to
\* Launching; and a call the game manager rejected changes no status and
\* calls no listener.
C20_LaunchSetsLaunching ==
    [][/\ \A h \in HubThreads :
            (/\ Returns(h) /\ hub'[h].op = "RequestLaunch"
             /\ hub'[h].result = "OK"
             /\ hub'[h].game_id \in KnownGames) =>
                /\ current_game_statuses_'[hub'[h].game_id].current_state = "Launching"
                /\ CalledListeners(hub'[h]) = listeners_
                /\ \A i \in 1..Len(hub'[h].delivered) :
                       /\ DeliveredUpdates(hub'[h])[i].game_id = hub'[h].game_id
                       /\ DeliveredUpdates(hub'[h])[i].current_state = "Launching"
       /\ \A g \in Catalog :
            current_game_statuses_'[g].current_state # current_game_statuses_[g].current_state
                => current_game_statuses_'[g].current_state = "Launching"
       /\ \A h \in HubThreads :
            (Enters(h) /\ hub'[h].result = "rejected") =>
                /\ current_game_statuses_' = current_game_statuses_
                /\ hub'[h].delivered = <<>>]_vars

\* An accepted launch has returned after publishing Launching to a listener.
C20_Witness ==
    \E h \in HubThreads :
        /\ hub[h].op = "RequestLaunch" /\ hub[h].pc = "returned"
        /\ hub[h].result = "OK"
        /\ hub[h].delivered # <<>>
        /\ current_game_statuses_[hub[h].game_id].current_state = "Launching"

\* The GameState an install or update task with a terminal status stands for.
TranslatedState(kind, status) ==
    CASE status = "kSucceeded" -> "ReadyToLaunch"
      [] status = "kFailed" -> (IF kind = "install" THEN "InstallFailed"
                                                     ELSE "UpdateFailed")
      [] OTHER -> "Idle"

\* The state CoreIPCService shows for a game.
ShownState(game_id) ==
    IF game_id \in Catalog THEN current_game_statuses_[game_id].current_state
                           ELSE "Unknown"

\* C19: once the task of an install or update is terminal, the status the
\* service keeps for its game eventually shows the translated state.
C19_TerminalTaskTranslated ==
    \A t \in TaskIds :
        (Finished(t) /\ IsPipeline(t) /\ info[t].status \in TerminalStatus)
            ~> (ShownState(origin[t].title) =
                    TranslatedState(origin[t].kind, info[t].status))

\* Every thread that enters the components: the callers of CoreIPCService and
\* the callers of InstallGame / UpdateGame / VerifyGame.
Threads == HubThreads \cup {RequestThread(t) : t \in TaskIds}

\* The mutexes of the components with the thread that holds each.
ComponentLocks ==
    [tasks_mutex_ |-> tasks_mutex_,
     active_operations_mutex_ |-> active_operations_mutex_,
     listeners_mutex_ |-> listeners_mutex_,
     games_mutex_ |-> games_mutex_]

LocksHeldBy(thread) == {m \in DOMAIN ComponentLocks : ComponentLocks[m] = thread}

\* C23: no thread holds more than one of the component locks (tasks_mutex_,
\* active_operations_mutex_, listeners_mutex_, games_mutex_) at the same time.
C23_OneLockAtATime ==
    \A thread \in Threads : Cardinality(LocksHeldBy(thread)) <= 1

\* The thread that holds the mutex thread h is waiting for: games_mutex_
\* inside AddStatusListener, listeners_mutex_ on entry to NotifyListeners
\* (NoThread: h is not waiting, or the mutex is free). The threads of the
\* game management service never wait with a mutex locked.
Awaited(h) ==
    CASE hub[h].pc = "snapshot" -> games_mutex_
      [] hub[h].pc = "publish" -> listeners_mutex_
      [] OTHER -> NoThread

\* C24: the locks are never acquired in a cyclic order: there is no set of
\* threads each of which waits for a mutex that a thread of the set holds.
C24_NoDeadlock ==
    ~ \E waiting \in (SUBSET HubThreads) \ {{}} :
          \A h \in waiting : Awaited(h) \in waiting

\* C21: a cancellation request for a title without an active operation
\* returns NotFound and changes nothing: CancelOperation with no entry in
\* active_operations_ only returns its status, and RequestCancel with no
\* entry in active_game_tasks_ returns without touching a task, a map, a
\* game status or a listener.
C21_CancelNotFoundChangesNothing ==
    [][/\ (cancelCalls' # cancelCalls
            /\ \A g \in Titles : active_operations_[g] = kInvalidTaskId)
          => /\ \E g \in Titles :
                   lastCancelResult' = [lastCancelResult EXCEPT ![g] = "NotFound"]
             /\ UNCHANGED <<next_task_id_, tasks_, info, cancellation_requested,
                            current_progress, current_description, wpc, work,
                            origin, reqpc, reqResult, active_operations_,
                            cancelling, cancelReqs, local_manifest,
                            cancelSeenActive>>
             /\ UNCHANGED hubVars
       /\ \A h \in HubThreads :
            (/\ Enters(h)
             /\ hub'[h].op = "RequestCancel"
             /\ active_game_tasks_[hub'[h].game_id] = kInvalidTaskId)
          => /\ hub'[h].pc = "returned"
             /\ hub'[h].result = "NotFound"
             /\ hub'[h].delivered = <<>>
             /\ UNCHANGED <<listeners_, current_game_statuses_, listeners_mutex_,
                            games_mutex_, active_game_tasks_, monitor_pc>>
             /\ UNCHANGED coreVars]_vars

\* Both calls have returned NotFound while a closure of the title is
\* executing.
C21_Witness ==
    /\ \E g \in Titles : lastCancelResult[g] = "NotFound"
    /\ \E h \in HubThreads : hub[h].op = "RequestCancel" /\ hub[h].result = "NotFound"
    /\ \E t \in TaskIds : wpc[t] = "work" /\ info[t].status = "kRunning"

\* CancelOperation finds the entry of task t in its critical section.
CancelFinds(t) == t \notin cancelling /\ t \in cancelling'
\* The CancelOperation call that found the entry of task t returns.
CancelReturns(t) == t \in cancelling /\ t \notin cancelling'

\* C22 as stated: CancelOperation for a title with an entry removes the entry
\* in its critical section and forwards RequestCancellation to the task of
\* the entry; when the call returns the map has no entry for the title.
C22_CancelLeavesTitleFree ==
    [][\A t \in TaskIds :
          /\ CancelFinds(t) =>
                /\ active_operations_[origin[t].title] = t
                /\ active_operations_'[origin[t].title] = kInvalidTaskId
                /\ lastCancelResult'[origin[t].title] = "OK"
          /\ CancelReturns(t) =>
                /\ cancellation_requested' = CancellationAfterRequest(t)
                /\ active_operations_'[origin[t].title] = kInvalidTaskId]_vars

\* C22 amended: the entry is removed in the critical section and
\* RequestCancellation is forwarded to its task; when the call returns the
\* map does not hold the entry of that task (an entry it holds then was
\* inserted by a request made after the removal).
C22_CancelRemovesEntry ==
    [][\A t \in TaskIds :
          /\ CancelFinds(t) =>
                /\ active_operations_[origin[t].title] = t
                /\ active_operations_'[origin[t].title] = kInvalidTaskId
                /\ lastCancelResult'[origin[t].title] = "OK"
          /\ CancelReturns(t) =>
                /\ cancellation_requested' = CancellationAfterRequest(t)
                /\ active_operations_'[origin[t].title] # t]_vars

\* The call has returned, the title has no entry, and the closure of the
\* cancelled task is still executing.
C22_Witness ==
    \E t \in TaskIds :
        /\ reqResult[t] = "OK" /\ cancelSeenActive[t] /\ t \notin cancelling
        /\ wpc[t] = "work" /\ info[t].status = "kRunning"
        /\ active_operations_[origin[t].title] = kInvalidTaskId
        /\ lastCancelResult[origin[t].title] = "OK"

\* The closure of install or update task t runs one iteration of its file loop.
FileStep(t) == IsPipeline(t) /\ AtWork(t, "file") /\ work'[t] # work[t]

\* The iteration of task t is complete: the file is downloaded and its hash
\* matches, the loop goes on with the next file or ends.
FileDone(t) ==
    /\ work'[t].idx = work[t].idx + 1
    /\ work'[t].pc = IF work'[t].idx = work[t].manifest[1].n THEN "save" ELSE "file"

\* The iteration of task t ends the closure with failure, and nothing is
\* written.
FileAborts(t) ==
    /\ work'[t].pc = "cleanup" /\ ~work'[t].success
    /\ local_manifest' = local_manifest

\* The LocalManifest of a title is written only by the save step of a
\* pipeline for the title that has downloaded and verified every file of its
\* manifest.
WrittenAfterAllFiles ==
    \A g \in Titles :
        local_manifest'[g] # local_manifest[g] =>
            \E t \in TaskIds :
                /\ IsPipeline(t) /\ AtWork(t, "save") /\ origin[t].title = g
                /\ ManifestValid(work[t].manifest[1])
                /\ work[t].idx = work[t].manifest[1].n
                /\ local_manifest'[g] = work[t].manifest

\* task_wrapper writes the final status of install or update task t, whose
\* closure returned false.
FailedPipelineEnds(t) ==
    IsPipeline(t) /\ wpc[t] = "final" /\ wpc'[t] = "done" /\ ~work[t].success

\* C25 as stated: in an install or update an iteration of the file loop
\* either completes its file or ends the closure with failure at once (no
\* further iteration, none for the same file), and a failed download does
\* the latter; no LocalManifest is written, and the task ends Failed.
C25_FirstBadFileAborts ==
    [][/\ \A t \in TaskIds :
            /\ FileStep(t) => (FileDone(t) \/ FileAborts(t))
            /\ (FileStep(t) /\ DownloadFile # "OK") => FileAborts(t)
            /\ FailedPipelineEnds(t) => info'[t].status = "kFailed"
       /\ WrittenAfterAllFiles]_vars

\* C25 amended: the same, and the task ends Failed unless a cancellation
\* request has set its flag, in which case it ends Cancelled.
C25_FirstBadFileAbortsUnlessCancelled ==
    [][/\ \A t \in TaskIds :
            /\ FileStep(t) => (FileDone(t) \/ FileAborts(t))
            /\ (FileStep(t) /\ DownloadFile # "OK") => FileAborts(t)
            /\ FailedPipelineEnds(t) =>
                  info'[t].status = IF cancellation_requested[t] THEN "kCancelled"
                                                                 ELSE "kFailed"
       /\ WrittenAfterAllFiles]_vars

\* An install or update is Failed, the download of the first file was the
\* last thing it reported, and the title has no LocalManifest.
C25_Witness ==
    \E t \in TaskIds :
        /\ IsPipeline(t) /\ Finished(t) /\ info[t].status = "kFailed"
        /\ reported[t] = <<"Downloading: ", 0>>
        /\ local_manifest[origin[t].title] = <<>>

\* The closure of install or update task t is past the validation.
PastValidation(w) == w.pc \in {"file", "save", "complete"}

\* C26 as stated: an install or update whose manifest does not parse or has
\* no "files" list ends its closure with failure before the file loop: no
\* file is downloaded, no LocalManifest is written, the task ends Failed.
C26_BadManifestFailsClosed ==
    [][/\ \A t \in TaskIds :
            /\ (IsPipeline(t) /\ AtWork(t, "parse") /\ work'[t] # work[t]) =>
                  \/ work'[t].pc = "validate" /\ work'[t].manifest # <<>>
                  \/ work'[t].pc = "cleanup" /\ ~work'[t].success
            /\ (/\ IsPipeline(t) /\ AtWork(t, "validate") /\ work'[t] # work[t]
                /\ work[t].manifest[1].files = "absent") =>
                  work'[t].pc = "cleanup" /\ ~work'[t].success
            /\ (IsPipeline(t) /\ PastValidation(work'[t])) =>
                  work'[t].manifest # <<>> /\ work'[t].manifest[1].files # "absent"
            /\ FailedPipelineEnds(t) => info'[t].status = "kFailed"
       /\ WrittenAfterAllFiles]_vars

\* C26 amended: the same, and the task ends Failed unless a cancellation
\* request has set its flag, in which case it ends Cancelled.
C26_BadManifestFailsClosedUnlessCancelled ==
    [][/\ \A t \in TaskIds :
            /\ (IsPipeline(t) /\ AtWork(t, "parse") /\ work'[t] # work[t]) =>
                  \/ work'[t].pc = "validate" /\ work'[t].manifest # <<>>
                  \/ work'[t].pc = "cleanup" /\ ~work'[t].success
            /\ (/\ IsPipeline(t) /\ AtWork(t, "validate") /\ work'[t] # work[t]
                /\ work[t].manifest[1].files = "absent") =>
                  work'[t].pc = "cleanup" /\ ~work'[t].success
            /\ (IsPipeline(t) /\ PastValidation(work'[t])) =>
                  work'[t].manifest # <<>> /\ work'[t].manifest[1].files # "absent"
            /\ FailedPipelineEnds(t) =>
                  info'[t].status = IF cancellation_requested[t] THEN "kCancelled"
                                                                 ELSE "kFailed"
       /\ WrittenAfterAllFiles]_vars

\* An install or update is Failed, the validation was the last thing it
\* reported, and the title has no LocalManifest.
C26_Witness ==
    \E t \in TaskIds :
        /\ IsPipeline(t) /\ Finished(t) /\ info[t].status = "kFailed"
        /\ reported[t] = <<"Validating manifest...">>
        /\ local_manifest[origin[t].title] = <<>>

\* Install task t has fetched and parsed a manifest whose "files" array has
\* one entry.
OneFileInstall(t) ==
    /\ origin[t].kind = "install" /\ wpc[t] = "work"
    /\ work[t].manifest # <<>>
    /\ ManifestValid(work[t].manifest[1]) /\ work[t].manifest[1].n = 1

\* C27: an install whose manifest lists one file reports 15% when the
\* manifest is validated, then downloads and accepts the file with a report
\* between 15% and 95%, writes a LocalManifest holding the manifest's entry,
\* reports 100% and returns success, after which the task is Succeeded
\* (the file is available with the matching hash, and the LocalManifest can
\* be written).
C27_OneFileInstallSucceeds ==
    [][\A t \in TaskIds :
          /\ (OneFileInstall(t) /\ work'[t] # work[t]) =>
                CASE work[t].pc = "validate" ->
                       current_progress'[t] = Frac(15, 100) /\ work'[t].pc = "file"
                  [] work[t].pc = "file" ->
                       /\ current_progress'[t] >= Frac(15, 100)
                       /\ current_progress'[t] <= Frac(95, 100)
                       /\ work'[t].pc = "save"
                  [] work[t].pc = "save" ->
                       work'[t].pc = "complete" =>
                          local_manifest'[origin[t].title] = work[t].manifest
                  [] OTHER -> TRUE
          /\ (origin[t].kind = "install" /\ AtWork(t, "complete") /\ work'[t] # work[t]) =>
                current_progress'[t] = Frac(1, 1) /\ work'[t].success
          /\ (/\ origin[t].kind = "install" /\ wpc[t] = "final" /\ wpc'[t] = "done"
              /\ work[t].success /\ ~cancellation_requested[t]) =>
                info'[t].status = "kSucceeded"]_vars

\* Verify task t works on a LocalManifest of the form the install pipeline
\* writes.
ReadsInstalledManifest(t) ==
    /\ origin[t].kind = "verify" /\ wpc[t] = "work"
    /\ work[t].manifest # <<>> /\ ManifestValid(work[t].manifest[1])

VerifyEndsUndisturbed(t) ==
    /\ origin[t].kind = "verify" /\ wpc[t] = "final" /\ wpc'[t] = "done"
    /\ cancelCalls = 0 /\ cancelReqs = 0

\* C29: a verify operation on a title whose LocalManifest was written by a
\* successful install ends Succeeded, and a verify operation on a title
\* without a LocalManifest ends Failed.
C29_ManifestMeansVerifiable ==
    [][\A t \in TaskIds :
          VerifyEndsUndisturbed(t) =>
             LET stored == LoadLocalManifest(origin[t].title) IN
               /\ stored = <<>> => info'[t].status = "kFailed"
               /\ (stored # <<>> /\ ManifestValid(stored[1])) =>
                     info'[t].status = "kSucceeded"]_vars

\* The files among those the verification looked at that are missing or
\* whose content does not have the hash of the manifest, by position.
BadFiles(checked) == {i \in 1..Len(checked) : checked[i] # "intact"}

\* The description names exactly the files at the positions `bad`.
ListsFiles(description, bad) ==
    /\ Len(description) = 2
    /\ {description[2][k] : k \in 1..Len(description[2])} = {i - 1 : i \in bad}

\* C30: when the verification loop is over it has looked at every file of
\* the LocalManifest, the closure returns failure exactly if one of them is
\* missing or mismatched, and the failure it reports lists every such file.
C30_VerifyReportsAllFailures ==
    [][\A t \in TaskIds :
          (origin[t].kind = "verify" /\ AtWork(t, "v_done") /\ work'[t] # work[t]) =>
             /\ Len(work[t].checked) = work[t].manifest[1].n
             /\ work'[t].success <=> BadFiles(work[t].checked) = {}
             /\ BadFiles(work[t].checked) # {} =>
                   ListsFiles(current_description'[t], BadFiles(work[t].checked))]_vars

\* The save step of install or update task t writes the LocalManifest.
WritesLocalManifest(t) ==
    /\ IsPipeline(t) /\ AtWork(t, "save")
    /\ local_manifest'[origin[t].title] # local_manifest[origin[t].title]

\* C31: once the cancellation of an install or update task has been
\* requested, its closure starts no further iteration of the file loop and
\* does not write the LocalManifest.
C31_CancelStopsAtFileBoundary ==
    [][\A t \in TaskIds :
          (IsPipeline(t) /\ wpc[t] = "work" /\ cancellation_requested[t]) =>
             /\ ~FileStep(t)
             /\ ~WritesLocalManifest(t)]_vars

\* C36: the first step of the worker of a task finds the task in the
\* registry and moves it to Running, and a task whose worker has returned has
\* a terminal status.
C36_WorkerFindsItsTask ==
    [][\A t \in TaskIds :
          /\ (wpc[t] = "start" /\ wpc'[t] # "start") =>
                /\ t \in tasks_
                /\ wpc'[t] = "work" /\ info'[t].status = "kRunning"
          /\ (wpc[t] = "final" /\ wpc'[t] = "done") =>
                info'[t].status \in {"kSucceeded", "kFailed", "kCancelled"}]_vars

\* Task t is an accepted operation whose closure has not exited and whose
\* entry is in the guard.
GuardedAndRunning(t) ==
    /\ reqResult[t] = "OK" /\ wpc[t] \in {"start", "work"}
    /\ active_operations_[origin[t].title] = t

\* C37: the guard entry of an accepted operation whose closure has not
\* exited leaves the guard only in the cleanup of that closure or in a
\* CancelOperation call.
C37_EntryRemovedByOwnerOrCancel ==
    [][\A t \in TaskIds :
          (GuardedAndRunning(t) /\ active_operations_'[origin[t].title] # t) =>
             \/ AtWork(t, "cleanup") /\ wpc'[t] = "final"
             \/ cancelCalls' = cancelCalls + 1]_vars

\* The closure of install or update task t makes a progress report.
PipelineReports(t) ==
    /\ IsPipeline(t) /\ wpc[t] = "work" /\ work[t].pc # "cleanup"
    /\ work'[t] # work[t]

LoginCalled == authCall'.op = "Login"

\* The credentials of the call are both non-empty and are not the accepted
\* pair.
WrongCredentials(call) ==
    /\ call.username # "" /\ call.password # ""
    /\ ~(call.username = kTestUser /\ call.password = kTestPassword)

\* C32: a Login call with non-empty wrong credentials returns
\* Unauthenticated, leaves the manager LoggedOut without a profile, calls
\* SetString for no key and leaves the settings as they were.
C32_WrongLoginRejected ==
    [][(LoginCalled /\ WrongCredentials(authCall')) =>
          /\ authCall'.result = "Unauthenticated"
          /\ current_status_' = "kLoggedOut"
          /\ current_profile_' = NullOpt
          /\ authCall'.written = <<>>
          /\ user_settings_' = user_settings_]_vars

\* A wrong Login was rejected by a manager that was LoggedIn before: the
\* settings still hold the session it had.
C32_Witness ==
    /\ authCall.op = "Login" /\ WrongCredentials(authCall)
    /\ authCall.result = "Unauthenticated"
    /\ user_settings_["auth.session_token"] = Some(kValidToken)

\* The credentials of the call have an empty part.
EmptyCredentials(call) == call.username = "" \/ call.password = ""

\* C33: a Login call with an empty username or an empty password returns
\* InvalidArgument and leaves the status, the profile and the settings as
\* they were.
C33_EmptyLoginChangesNothing ==
    [][(LoginCalled /\ EmptyCredentials(authCall')) =>
          /\ authCall'.result = "InvalidArgument"
          /\ authCall'.written = <<>>
          /\ UNCHANGED <<current_status_, current_profile_, user_settings_>>]_vars

\* Login with an empty part returned InvalidArgument to a manager that is
\* LoggedIn.
C33_Witness ==
    /\ authCall.op = "Login" /\ EmptyCredentials(authCall)
    /\ authCall.result = "InvalidArgument"
    /\ current_status_ = "kLoggedIn" /\ current_profile_ # NullOpt

\* The step constructs a manager.
ManagerCreated == authCall'.op = "Create"

\* What the settings hold before the construction.
StoredToken == user_settings_["auth.session_token"]
ProfileStored ==
    /\ user_settings_["auth.user_id"] # NullOpt
    /\ user_settings_["auth.username"] # NullOpt
    /\ user_settings_["auth.email"] # NullOpt

\* The construction wrote nothing.
NothingWritten == authCall'.written = <<>> /\ user_settings_' = user_settings_

\* The construction called SetString with the empty string for each of the
\* four keys; a key keeps its value only if its call failed.
SessionCleared ==
    /\ authCall'.written = AuthKeys
    /\ \A key \in AuthKeySet : user_settings_'[key] \in {Some(""), user_settings_[key]}
    /\ authCall'.writes_ok => \A key \in AuthKeySet : user_settings_'[key] = Some("")

\* C34: a manager constructed on the settings starts LoggedIn, with the
\* stored profile, exactly if the stored token is the valid token and user
\* id, username and email are stored; with the valid token and incomplete
\* data it starts LoggedOut and writes nothing; with a non-empty invalid
\* token it starts LoggedOut and clears the four keys; with no token or an
\* empty one it starts LoggedOut and writes nothing.
C34_SessionRestore ==
    [][ManagerCreated =>
          /\ current_status_' = "kLoggedIn" <=>
                (StoredToken = Some(kValidToken) /\ ProfileStored)
          /\ current_status_' = "kLoggedIn" =>
                /\ current_profile_' =
                      Some(UserProfile(user_settings_["auth.user_id"][1],
                                       user_settings_["auth.username"][1],
                                       user_settings_["auth.email"][1]))
                /\ NothingWritten
          /\ current_status_' = "kLoggedOut" =>
                /\ current_profile_' = NullOpt
                /\ IF StoredToken \in {NullOpt, Some(""), Some(kValidToken)}
                     THEN NothingWritten
                     ELSE SessionCleared]_vars

\* A manager was constructed on settings that hold the valid token but no
\* user id: it is LoggedOut and the token is still stored.
C34_Witness ==
    /\ authCall.op = "Create"
    /\ user_settings_["auth.session_token"] = Some(kValidToken)
    /\ user_settings_["auth.user_id"] = NullOpt
    /\ current_status_ = "kLoggedOut"

\* C39: whenever a manager exists, GetCurrentUserProfile returns a profile
\* exactly if GetAuthStatus returns LoggedIn; after a Logout call the call
\* has returned OK and the manager is LoggedOut.
C39_ProfileIffLoggedIn ==
    /\ auth_manager_ =>
          (GetCurrentUserProfile # NullOpt <=> GetAuthStatus = "kLoggedIn")
    /\ authCall.op = "Logout" =>
          /\ authCall.result = "OK"
          /\ GetAuthStatus = "kLoggedOut"
          /\ GetCurrentUserProfile = NullOpt

\* Login with wrong credentials was rejected while the settings hold a
\* complete session: the manager is LoggedOut and returns no profile.
C39_Witness ==
    /\ authCall.op = "Login" /\ authCall.result = "Unauthenticated"
    /\ LoadSession.status = "kLoggedIn"
    /\ GetAuthStatus = "kLoggedOut" /\ GetCurrentUserProfile = NullOpt

\* C40: after a Login or Logout call of a run in which every SetString call
\* returned OK, a manager that is LoggedOut has left settings on which a
\* manager constructed next does not start LoggedIn.
C40_LoggedOutIsPersisted ==
    (/\ auth_manager_ /\ authCall.op \in {"Login", "Logout"}
     /\ authCall.writes_ok
     /\ GetAuthStatus = "kLoggedOut")
       => LoadSession.status # "kLoggedIn"

\* ---- C35
\* C35: constructing the JSON user settings, or calling LoadSettings, while
\* the file does not exist succeeds and leaves the settings not dirty; the
\* settings become dirty only by SetAppSettings; and a SaveSettings that
\* returns OK leaves them not dirty.
C35_DirtyOnlyWhenSet ==
    [][ /\ (settings_file = "absent"
              /\ settingsCall'.op \in {"JsonUserSettings", "LoadSettings"})
            => (settingsCall'.result = "OK" /\ ~settings_dirty_')
        /\ (~settings_dirty_ /\ settings_dirty_')
            => settingsCall'.op = "SetAppSettings"
        /\ (settingsCall'.op = "SaveSettings" /\ settingsCall'.result = "OK")
            => ~settings_dirty_' ]_vars

====
